---- MODULE Spec2Model ----
(***************************************************************************)
(* Model of the chapter audio pipeline of audiobook-api:                   *)
(*   app/services/kokoro_service.py  generate_full_chapter, the Telegram   *)
(*                                    upload / resolve helpers             *)
(*   app/routes/tts.py               the chapters table, slugify and the   *)
(*                                    POST /tts/chapter handler            *)
(*   app/routes/epub_tts.py          GET /generate-chapter-range and the   *)
(*                                    tasks and worker threads behind it   *)
(*   app/main.py                     the start of the process              *)
(* Time is counted in audio samples (24000 per second); the timestamps the *)
(* code rounds to three decimals are counted in milliseconds.              *)
(***************************************************************************)
EXTENDS Integers, Sequences, FiniteSets, TLC

\* ------------------------------------------------------------------ bounds
\* Segments one engine call may yield while a request is served.
MaxSegs == 1
\* Segments one engine call may yield in a direct call of generate_full_chapter.
MaxDirectSegs == 2
\* POST /tts/chapter requests accepted in one run of the server.
MaxCalls == 2
\* Longest text handed to the segmenter alone.
MaxTextLen == 4
\* Most chunks the engine yields for one sentence of a range request.
MaxChunks == 1
\* Highest value the model lets temp_monitor.high_temp_count take.
MaxHotCount == 5

\* ------------------------------------------------------- program constants
\* sample_rate (kokoro_service.py:50)
SampleRate == 24000
\* len(silence_padding) = int(0.15 * sample_rate) (kokoro_service.py:51)
SilenceSamples == 3600
\* the 0.15 s the clock advances by, in milliseconds (kokoro_service.py:65)
SilenceMs == 150
\* samples per millisecond
SamplesPerMs == SampleRate \div 1000

\* Python's None, for a value that is otherwise a string
None == "None"
\* Python's None, for a value that is otherwise kept as a one-element tuple
Nil == <<>>

\* --------------------------------------------------------------- characters
Whitespace == {" ", "\n"}
Terminal == {".", "!", "?"}
Upper == {"A", "B"}
\* \w of the regular expressions: letters, digits and the underscore
WordChars == {"a", "b", "c", "A", "B", "_"}

ToLower(c) == IF c = "A" THEN "a" ELSE IF c = "B" THEN "b" ELSE c

RECURSIVE LStrip(_)
LStrip(s) == IF s # <<>> /\ Head(s) \in Whitespace THEN LStrip(Tail(s)) ELSE s

RECURSIVE RStrip(_)
RStrip(s) ==
    IF s # <<>> /\ s[Len(s)] \in Whitespace THEN RStrip(SubSeq(s, 1, Len(s) - 1)) ELSE s

\* str.strip()
Strip(s) == RStrip(LStrip(s))

\* slugify (tts.py:54-55):
\*   re.sub(r'[^\w\s-]', '', value).strip().lower().replace(' ', '_')
slugify(value) ==
    LET kept == SelectSeq(value, LAMBDA c : c \in WordChars \cup Whitespace \cup {"-"})
        low  == [n \in 1..Len(Strip(kept)) |-> ToLower(Strip(kept)[n])]
    IN  [n \in 1..Len(low) |-> IF low[n] = " " THEN "_" ELSE low[n]]

\* text.replace('\n', ' ')
ReplaceNewlines(s) == [n \in 1..Len(s) |-> IF s[n] = "\n" THEN " " ELSE s[n]]

\* re.split(r'(?<=[.!?])\s+', s): cut out every run of whitespace that directly
\* follows a terminal mark; cur is the piece being collected.
RECURSIVE SplitFrom(_, _, _)
SplitFrom(s, n, cur) ==
    IF n > Len(s) THEN <<cur>>
    ELSE IF s[n] \in Whitespace /\ n > 1 /\ s[n - 1] \in Terminal
         THEN <<cur>> \o SplitFrom(LStrip(SubSeq(s, n, Len(s))), 1, <<>>)
         ELSE SplitFrom(s, n + 1, Append(cur, s[n]))

\* A slip: the text is not stripped before it is split.
SentencesUntrimmed(text) == SplitFrom(ReplaceNewlines(text), 1, <<>>)

\* sentences (kokoro_service.py:48)
Sentences(text) == SplitFrom(Strip(ReplaceNewlines(text)), 1, <<>>)

\* ----------------------------------------------------------------- rounding
\* round(x, 3) of a time of s samples, in milliseconds. A time that lies exactly
\* half way between two milliseconds has no exact float: Python rounds the float
\* nearest to it, which falls on either side (round(0.0005, 3) = 0.001 and
\* round(0.1505, 3) = 0.15), so both results are possible.
Round3(s) ==
    LET q == s \div SamplesPerMs
        m == s % SamplesPerMs
    IN  IF 2 * m < SamplesPerMs THEN {q}
        ELSE IF 2 * m > SamplesPerMs THEN {q + 1}
        ELSE {q, q + 1}

RECURSIVE SumSeq(_)
SumSeq(s) == IF s = <<>> THEN 0 ELSE Head(s) + SumSeq(Tail(s))

\* ------------------------------------------------------------------- inputs
Slots == {1, 2}

\* Voices the engine has a voice file for.
EngineVoices == {"af_heart", "am_adam"}

TextTwo == <<"a", ".", "\n", "\n", "b">>
TextB == <<"b", "!">>
TextOne == <<"c", "?">>

\* ChapterRequest (tts.py:57-63); speed in tenths.
Req(title, chapter, text, voice, speed, item) ==
    [book_title |-> title, chapter_name |-> chapter, text |-> text,
     voice |-> voice, speed |-> speed, epub_item_id |-> item]

\* Requests the clients send: two that agree on (slug of the title, item id)
\* and differ in everything else, one that differs from the second in the item
\* id only, one that differs from it in the book only, and the three kinds of
\* input section 7 of the specification calls invalid.
Requests ==
    { Req(<<"A", " ", "b">>, <<"B">>, TextB, "af_heart", 10, "i1"),
      Req(<<"a", " ", "b", "!">>, <<"c">>, TextOne, "am_adam", 15, "i1"),
      Req(<<"a", " ", "b", "!">>, <<"c">>, TextOne, "am_adam", 15, "i2"),
      Req(<<"c">>, <<"c">>, TextOne, "am_adam", 15, "i1"),
      Req(<<"A", " ", "b">>, <<"B">>, TextOne, "xx_invalid", 10, "i1"),
      Req(<<"A", " ", "b">>, <<"B">>, TextOne, "af_heart", 0, "i1"),
      Req(<<"A", " ", "b">>, <<"B">>, <<>>, "af_heart", 10, "i1") }

\* Segment lengths (samples) the engine yields while a request is served.
ServedDurs == {24000}

\* Direct calls of generate_full_chapter: texts of none, one and two sentences.
DirectTexts == {<<>>, <<" ", "\n">>, TextOne, TextTwo}
\* 1.000 s, 0.800 s and half a millisecond.
DirectDurs == {24000, 19200, 12}

NoReq == Req(<<>>, <<>>, <<>>, None, 0, None)

VARIABLES
    pc,         \* slot -> where its request stands
    request,    \* slot -> the ChapterRequest
    frame,      \* slot -> the locals of generate_full_chapter
    local,      \* slot -> the locals of post_chapter
    response,   \* slot -> what the client is sent
    calls,      \* slot -> engine and upload calls made for the request
    raced,      \* the requests now in the two slots were in flight at the same time
    flipped,    \* Telegram has stopped or started answering since the server started
    running,    \* the slot whose handler the event loop is executing, 0 if none
    turn,       \* slot -> the handler was the n-th the event loop started, 0 before
    db,         \* rows of the chapters table
    nextId,     \* the AUTOINCREMENT counter
    blobs,      \* file_id -> what Telegram stores under it
    tgUp,       \* Telegram answers (token set, network up)
    accepted,   \* requests accepted so far
    pipeline,   \* kokoro_service.pipeline: 0 for None, else the n-th KPipeline built
    boot,       \* how far the process has come in starting
    host,       \* what the probes of the machine give: model and thread count
    high_temp_count,  \* temp_monitor.high_temp_count
    reading,    \* the last call of temp_monitor.should_throttle and what it answered
    epub_cache, \* epub_id -> the uploaded book
    rng,        \* the GET /generate-chapter-range request and its locals
    ch,         \* chapter index -> the generate_chapter_audio_concurrent task
    sen,        \* chapter index -> sentence -> the generate_sentence_audio task
    rresp       \* what the client of the range request is sent

\* The state of the range mode (app/routes/epub_tts.py).
rangeVars ==
    <<pipeline, boot, host, high_temp_count, reading, epub_cache, rng, ch, sen, rresp>>

\* The state of the single-chapter mode (app/routes/tts.py).
chapterVars == <<pc, request, frame, local, response, calls, raced, flipped, running, turn,
                 db, nextId, blobs, tgUp, accepted>>

vars == <<pc, request, frame, local, response, calls, raced, flipped, running, turn,
          db, nextId, blobs, tgUp, accepted,
          pipeline, boot, host, high_temp_count, reading, epub_cache, rng, ch, sen, rresp>>

\* ---------------------------------------------------------------- the state
NoFrame ==
    [i |-> 0, k |-> 0, current_time |-> 0, combined_audio |-> <<>>, metadata |-> <<>>,
     yielded |-> <<>>]
NoLocal ==
    [row |-> Nil, tg_url |-> Nil, audio_bytes |-> Nil, metadata |-> <<>>, tg_file_id |-> Nil]
NoResponse == [kind |-> "none", audio_url |-> Nil, audio |-> Nil, metadata |-> <<>>]
NoCalls == [engine |-> 0, upload |-> 0, insert |-> 0, resolve |-> 0]

TypeOK ==
    /\ pc \in [Slots -> {"idle", "pending", "resolve", "loop", "gen", "upload", "store", "done"}]
    /\ running \in Slots \cup {0}
    /\ tgUp \in BOOLEAN
    /\ accepted \in 0..MaxCalls

\* ------------------------------------------------------------ the range state
\* The book the client has uploaded: upload_epub gives every chapter kept the
\* index len(chapters) (epub_tts.py:165-170) and a content with single spaces
\* and no blank ends (epub_tts.py:163). The second chapter holds no word.
Book ==
    << [index |-> 0, title |-> <<"a">>, content |-> <<"a", ".", " ", "b">>],
       [index |-> 1, title |-> <<"b">>, content |-> <<".">>],
       [index |-> 2, title |-> <<"c">>, content |-> <<"c">>] >>

ChapterIdx == {Book[n].index : n \in 1..Len(Book)}

\* A book with a chapter of three sentences, more than a batch of two takes.
LongBook ==
    << [index |-> 0, title |-> <<"a">>, content |-> <<"a", ".", "b", ".", "c">>],
       [index |-> 1, title |-> <<"b">>, content |-> <<".">>],
       [index |-> 2, title |-> <<"c">>, content |-> <<"d">>] >>

\* Positions (0-based) of the sentences of a chapter; the longest has three.
SentIdx == 0..2

\* epub_cache after the upload (epub_tts.py:176-180).
UploadedCache == [id \in {"e1"} |-> [chapters |-> Book, title |-> <<"T">>]]

\* epub_cache after the upload of the book with the long chapter.
UploadedLongCache == [id \in {"e1"} |-> [chapters |-> LongBook, title |-> <<"T">>]]

\* Lengths, in bytes, of the chunks generate_audio_stream yields.
ChunkBytes == {8, 9}

\* What _generate collects for a sentence: at most MaxChunks chunks.
ChunkLists == UNION {[1..n -> ChunkBytes] : n \in 0..MaxChunks}

\* Machines the process runs on: what get_macbook_model and
\* get_optimal_thread_count give (epub_tts.py:38-83): a MacBook Air with two
\* performance cores, and a machine that is no MacBook (the default of 4).
Hosts == {[model |-> "air", threads |-> 2], [model |-> "unknown", threads |-> 4]}

NoRng ==
    [st |-> "idle", epub_id |-> None, from_chapter |-> 0, to_chapter |-> 0,
     include_silence |-> TRUE, silence_ms |-> 0, format |-> None,
     on_battery |-> FALSE, batch_size |-> 0, i |-> 0,
     chapter_audio |-> [c \in ChapterIdx |-> Nil], all_audio_chunks |-> <<>>,
     pauses |-> <<>>]
\* pauses (of NoRng): the sleeps, in milliseconds, that have followed the
\* batches of chapters. overtook: the task ended while a task made before it in
\* the same batch was still at work.
NoChapterTask ==
    [st |-> "none", i |-> 0, batch_size |-> 0, all_chunks |-> <<>>, overtook |-> FALSE]
\* pauses: the sleeps of the task's cool_down.
NoSentenceTask == [st |-> "none", chunks |-> <<>>, overtook |-> FALSE, pauses |-> 0]
NoRangeResponse == [status |-> 0, media |-> None, body |-> <<>>]
\* No call of should_throttle yet. hot: the temperature read was above max_temp;
\* before: high_temp_count as the call found it; throttle: what the call
\* answered; streak: how many readings above max_temp there have been, one
\* after the other, since the counter stood at zero (0 once another reading
\* has come between).
NoReading == [hot |-> FALSE, before |-> 0, throttle |-> FALSE, streak |-> 0]

\* The range mode before any range request, in a process that has started.
RangeAtRest ==
    /\ pipeline = 1
    /\ boot = "serving"
    /\ host = [model |-> "unknown", threads |-> 4]
    /\ high_temp_count = 0
    /\ reading = NoReading
    /\ epub_cache = UploadedCache
    /\ rng = NoRng
    /\ ch = [c \in ChapterIdx |-> NoChapterTask]
    /\ sen = [c \in ChapterIdx |-> [n \in SentIdx |-> NoSentenceTask]]
    /\ rresp = NoRangeResponse

\* ------------------------------------------------- generate_full_chapter
\* The locals after lines 45-51: no audio, no metadata, the clock at 0.0.
\* yielded records the lengths of the arrays the engine has yielded so far.
NewFrame ==
    [i |-> 1, k |-> 0, current_time |-> 0, combined_audio |-> <<>>, metadata |-> <<>>,
     yielded |-> <<>>]

\* A slip: the segment's length is written where its end belongs.
EntryLengthAsEnd(i, sentence, start, end) ==
    [index |-> i - 1, text |-> Strip(sentence), start |-> start, end |-> end - start]

\* metadata.append({...}) (kokoro_service.py:60-63); i is the 1-based position
\* of the sentence, the code's index is the 0-based one. start and end are in ms.
Entry(i, sentence, start, end) ==
    [index |-> i - 1, text |-> Strip(sentence), start |-> start, end |-> end]

\* A slip: silence only between segments, none after the last.
ExtendAudioBetween(combined, d) ==
    IF combined = <<>> THEN <<d>> ELSE combined \o <<SilenceSamples, d>>

\* combined_audio.extend([audio, silence_padding]) (kokoro_service.py:64), as the
\* lengths of the arrays.
ExtendAudio(combined, d) == combined \o <<d, SilenceSamples>>

\* A slip: the clock forgets the silence.
AdvanceClockNoSilence(ct, d) == ct + d

\* current_time += (duration + 0.15) (kokoro_service.py:65)
AdvanceClock(ct, d) == ct + d + SilenceSamples

\* len(np.concatenate(combined_audio)): the assembled audio, before encoding
\* (kokoro_service.py:70)
FinalAudioLen(combined) == SumSeq(combined)

\* audio_segment.export(buf, format="mp3", bitrate="48k") (kokoro_service.py:71-76):
\* the payload, known by the number of samples it plays.
Encode(combined) == <<FinalAudioLen(combined)>>

\* The head of the for loop (kokoro_service.py:53-55) and what follows the loop
\* (kokoro_service.py:67).
LoopNext(r) ==
    /\ pc[r] = "loop"
    /\ LET ss == Sentences(request[r].text)
           f  == frame[r]
       IN  IF f.i > Len(ss)
           THEN IF f.combined_audio = <<>>
                THEN \* return None, [], 0, None
                     /\ local' = [local EXCEPT ![r].audio_bytes = Nil,
                                               ![r].metadata = <<>>,
                                               ![r].tg_file_id = Nil]
                     /\ pc' = [pc EXCEPT ![r] = "store"]
                     /\ frame' = [frame EXCEPT ![r] = NoFrame]
                     /\ UNCHANGED calls
                ELSE /\ pc' = [pc EXCEPT ![r] = "upload"]
                     /\ UNCHANGED <<frame, calls, local>>
           ELSE IF Strip(ss[f.i]) = <<>>
                THEN \* continue
                     /\ frame' = [frame EXCEPT ![r].i = f.i + 1]
                     /\ UNCHANGED <<pc, calls, local>>
                ELSE \* generator = pipeline(sentence, voice=voice, speed=speed)
                     /\ calls' = [calls EXCEPT ![r].engine = @ + 1]
                     /\ frame' = [frame EXCEPT ![r].k = 0]
                     /\ pc' = [pc EXCEPT ![r] = "gen"]
                     /\ UNCHANGED local
    /\ UNCHANGED <<request, response, raced, flipped, running, turn, db, nextId, blobs, tgUp, accepted>>
    /\ UNCHANGED rangeVars

\* The engine has a voice file for the request's voice.
VoiceKnown(r) == request[r].voice \in EngineVoices

\* The generator yields one more segment, of d samples (kokoro_service.py:56-65).
GenYield(r, d, maxk) ==
    /\ pc[r] = "gen"
    /\ VoiceKnown(r)
    /\ frame[r].k < maxk
    /\ LET f == frame[r]
           sentence == Sentences(request[r].text)[f.i]
       IN  \E start \in Round3(f.current_time), end \in Round3(f.current_time + d) :
             frame' = [frame EXCEPT
                         ![r].metadata = Append(@, Entry(f.i, sentence, start, end)),
                         ![r].combined_audio = ExtendAudio(@, d),
                         ![r].current_time = AdvanceClock(@, d),
                         ![r].yielded = Append(@, d),
                         ![r].k = f.k + 1]
    /\ UNCHANGED <<pc, request, local, response, calls, raced, flipped, running, turn, db, nextId,
                   blobs, tgUp, accepted>>
    /\ UNCHANGED rangeVars

\* The generator is exhausted: on to the next sentence.
GenStop(r) ==
    /\ pc[r] = "gen"
    /\ VoiceKnown(r)
    /\ frame' = [frame EXCEPT ![r].i = @ + 1]
    /\ pc' = [pc EXCEPT ![r] = "loop"]
    /\ UNCHANGED <<request, local, response, calls, raced, flipped, running, turn, db, nextId,
                   blobs, tgUp, accepted>>
    /\ UNCHANGED rangeVars

\* A slip: the failure is caught and the sentence is tried again.
GenRaiseRetry(r) ==
    /\ pc[r] = "gen"
    /\ pc' = [pc EXCEPT ![r] = "loop"]
    /\ UNCHANGED <<request, frame, local, response, calls, raced, flipped, running, turn, db,
                   nextId, blobs, tgUp, accepted>>
    /\ UNCHANGED rangeVars

\* The engine raises (no voice file, or any failure of its own). Nothing in
\* generate_full_chapter or post_chapter catches it: the request ends in a 500
\* and the locals are gone; yielded keeps, for the record, what the engine had
\* given before it failed.
GenRaise(r) ==
    /\ pc[r] = "gen"
    /\ pc' = [pc EXCEPT ![r] = "done"]
    /\ response' = [response EXCEPT ![r] = [NoResponse EXCEPT !.kind = "error"]]
    /\ running' = IF running = r THEN 0 ELSE running
    /\ frame' = [frame EXCEPT ![r] = [NoFrame EXCEPT !.yielded = frame[r].yielded]]
    /\ UNCHANGED <<request, local, calls, raced, flipped, turn, db, nextId, blobs, tgUp, accepted>>
    /\ UNCHANGED rangeVars

\* The file_id Telegram gives the next upload.
NewFileId == <<Cardinality(blobs) + 1>>

\* A slip: a file_id is returned although Telegram stored nothing.
UploadInventsId(audio_bytes, filename) ==
    IF tgUp
    THEN [blobs |-> blobs \cup {[file_id |-> NewFileId, filename |-> filename,
                                 audio |-> audio_bytes]},
          file_id |-> NewFileId]
    ELSE [blobs |-> blobs, file_id |-> NewFileId]

\* upload_to_telegram (kokoro_service.py:32-42): the new set of blobs and the
\* file_id returned, None when Telegram does not answer "ok".
UploadToTelegram(audio_bytes, filename) ==
    IF tgUp
    THEN [blobs |-> blobs \cup {[file_id |-> NewFileId, filename |-> filename,
                                 audio |-> audio_bytes]},
          file_id |-> NewFileId]
    ELSE [blobs |-> blobs, file_id |-> Nil]

\* Encoding, the single upload and the return (kokoro_service.py:69-81).
EncodeUpload(r) ==
    /\ pc[r] = "upload"
    /\ LET audio_data == Encode(frame[r].combined_audio)
           up == UploadToTelegram(audio_data, slugify(request[r].chapter_name))
       IN  /\ blobs' = up.blobs
           /\ local' = [local EXCEPT ![r].audio_bytes = audio_data,
                                     ![r].metadata = frame[r].metadata,
                                     ![r].tg_file_id = up.file_id]
    /\ calls' = [calls EXCEPT ![r].upload = @ + 1]
    /\ pc' = [pc EXCEPT ![r] = "store"]
    /\ frame' = [frame EXCEPT ![r] = NoFrame]
    /\ UNCHANGED <<request, response, raced, flipped, running, turn, db, nextId, tgUp, accepted>>
    /\ UNCHANGED rangeVars

\* The MP3 export raises (pydub finds no ffmpeg, or the encoder fails)
\* (kokoro_service.py:72-75). Nothing catches it: no upload, no return value,
\* the request ends in a 500.
EncodeRaise(r) ==
    /\ pc[r] = "upload"
    /\ pc' = [pc EXCEPT ![r] = "done"]
    /\ response' = [response EXCEPT ![r] = [NoResponse EXCEPT !.kind = "error"]]
    /\ running' = IF running = r THEN 0 ELSE running
    /\ frame' = [frame EXCEPT ![r] = NoFrame]
    /\ UNCHANGED <<request, local, calls, raced, flipped, turn, db, nextId, blobs, tgUp, accepted>>
    /\ UNCHANGED rangeVars

\* --------------------------------------- direct calls of generate_full_chapter
InitDirect ==
    /\ \E text \in DirectTexts :
         request = [r \in Slots |->
                      IF r = 1 THEN Req(<<>>, <<"c">>, text, "af_heart", 10, None)
                      ELSE NoReq]
    /\ pc = [r \in Slots |-> IF r = 1 THEN "loop" ELSE "idle"]
    /\ frame = [r \in Slots |-> IF r = 1 THEN NewFrame ELSE NoFrame]
    /\ local = [r \in Slots |-> NoLocal]
    /\ response = [r \in Slots |-> NoResponse]
    /\ calls = [r \in Slots |-> NoCalls]
    /\ raced = FALSE
    /\ flipped = FALSE
    /\ running = 0
    /\ turn = [r \in Slots |-> 0]
    /\ db = {}
    /\ nextId = 1
    /\ blobs = {}
    /\ tgUp \in BOOLEAN
    /\ accepted = 0
    /\ RangeAtRest

NextDirect ==
    \/ LoopNext(1)
    \/ \E d \in DirectDurs : GenYield(1, d, MaxDirectSegs)
    \/ GenStop(1)
    \/ GenRaise(1)
    \/ EncodeUpload(1)
    \/ EncodeRaise(1)

SpecDirect == InitDirect /\ [][NextDirect]_vars

\* ------------------------------------------------------ the segmenter alone
\* Characters of the texts the segmenter is tried on.
SegChars == {"a", ".", "?", " ", "\n"}

\* "Hello world. How are you? Fine!"
HelloText ==
    <<"H", "e", "l", "l", "o", " ", "w", "o", "r", "l", "d", ".", " ",
      "H", "o", "w", " ", "a", "r", "e", " ", "y", "o", "u", "?", " ",
      "F", "i", "n", "e", "!">>

\* Every text of at most MaxTextLen characters, and the text of the scenario.
SegTexts == UNION {[1..n -> SegChars] : n \in 0..MaxTextLen} \cup {HelloText}

\* generate_full_chapter is called on a text; the engine yields nothing.
InitSegment ==
    /\ \E text \in SegTexts :
         request = [r \in Slots |->
                      IF r = 1 THEN Req(<<>>, <<"c">>, text, "af_heart", 10, None)
                      ELSE NoReq]
    /\ pc = [r \in Slots |-> IF r = 1 THEN "loop" ELSE "idle"]
    /\ frame = [r \in Slots |-> IF r = 1 THEN NewFrame ELSE NoFrame]
    /\ local = [r \in Slots |-> NoLocal]
    /\ response = [r \in Slots |-> NoResponse]
    /\ calls = [r \in Slots |-> NoCalls]
    /\ raced = FALSE
    /\ flipped = FALSE
    /\ running = 0
    /\ turn = [r \in Slots |-> 0]
    /\ db = {}
    /\ nextId = 1
    /\ blobs = {}
    /\ tgUp = FALSE
    /\ accepted = 0
    /\ RangeAtRest

NextSegment ==
    \/ LoopNext(1)
    \/ GenStop(1)

SpecSegment == InitSegment /\ [][NextSegment]_vars

\* ----------------------------------------------------- the timeline, claims
\* The clock before segment n of a call that yielded segments of lengths ds:
\* every earlier segment and the silence after it.
RECURSIVE ClockAt(_, _)
ClockAt(ds, n) == IF n <= 1 THEN 0 ELSE ClockAt(ds, n - 1) + ds[n - 1] + SilenceSamples

Abs(x) == IF x < 0 THEN -x ELSE x

\* The calls of generate_full_chapter that are inside the function.
InCall == {r \in Slots : pc[r] \in {"loop", "gen", "upload"}}

\* C1 as amended: every timing entry has start = the running clock and
\* end = the running clock + the segment's duration, each rounded to three
\* decimals, and the clock (unrounded) advances by the duration plus 0.15 s;
\* segments of 1.000 s and 0.800 s give (0.0, 1.0) and (1.15, 1.95).
C1_EntriesFollowClock ==
    \A r \in InCall :
        LET m == frame[r].metadata
            ds == frame[r].yielded
        IN  /\ Len(m) = Len(ds)
            /\ frame[r].current_time = ClockAt(ds, Len(ds) + 1)
            /\ \A n \in 1..Len(m) :
                 /\ m[n].start \in Round3(ClockAt(ds, n))
                 /\ m[n].end \in Round3(ClockAt(ds, n) + ds[n])
            /\ (ds = <<24000, 19200>> =>
                  /\ m[1].start = 0 /\ m[1].end = 1000
                  /\ m[2].start = 1150 /\ m[2].end = 1950)

\* C1, as stated: start is the clock itself and end is start plus the segment's
\* duration, exactly.
C1_Original ==
    \A r \in InCall :
        LET m == frame[r].metadata
            ds == frame[r].yielded
        IN  \A n \in 1..Len(m) :
              /\ m[n].start * SamplesPerMs = ClockAt(ds, n)
              /\ m[n].end * SamplesPerMs = m[n].start * SamplesPerMs + ds[n]

\* The scenario of the specification has been played, and so has a segment that
\* is no whole number of milliseconds long.
C1_Witness ==
    \E r \in InCall :
        /\ frame[r].yielded = <<24000, 19200>>
        /\ Len(frame[r].metadata) = 2

\* The sum of end - start over the entries, in milliseconds.
RECURSIVE EntrySpan(_)
EntrySpan(m) == IF m = <<>> THEN 0 ELSE (Head(m).end - Head(m).start) + EntrySpan(Tail(m))

\* The assembled audio differs from the entries' durations plus gaps silences by
\* no more than the rounding of the entries (a millisecond each).
SpanMatches(r, gaps) ==
    LET m == frame[r].metadata
    IN  Abs(FinalAudioLen(frame[r].combined_audio)
            - SamplesPerMs * (EntrySpan(m) + gaps * SilenceMs)) <= Len(m) * SamplesPerMs

\* C2 as amended: with n >= 1 segments the assembled audio lasts the sum of the
\* segments' durations plus n times the silence (silence follows the last segment
\* too); the entries' durations add up to the same within their rounding.
C2_TotalWithTrailingSilence ==
    \A r \in Slots :
        pc[r] = "upload" =>
            LET n == Len(frame[r].yielded)
            IN  /\ n >= 1
                /\ FinalAudioLen(frame[r].combined_audio)
                     = SumSeq(frame[r].yielded) + n * SilenceSamples
                /\ SpanMatches(r, n)

\* C2, as stated: n - 1 silences.
C2_Original ==
    \A r \in Slots : pc[r] = "upload" => SpanMatches(r, Len(frame[r].yielded) - 1)

\* A chapter of two segments or more has been assembled.
C2_Witness == \E r \in Slots : pc[r] = "upload" /\ Len(frame[r].yielded) >= 2

\* A time of s samples lies half way between two milliseconds.
HalfWay(s) == 2 * (s % SamplesPerMs) = SamplesPerMs

\* C3 as amended: the entries are non-decreasing in start; end - start is the
\* segment's duration to within a millisecond; the gap between consecutive
\* entries is the 0.15 s silence to within a millisecond, and exactly 0.15 s
\* unless the earlier entry's end fell half way between two milliseconds.
C3_EntriesOrderedAndSpaced ==
    \A r \in InCall :
        LET m == frame[r].metadata
            ds == frame[r].yielded
        IN  /\ \A n \in 1..Len(m) :
                 Abs(SamplesPerMs * (m[n].end - m[n].start) - ds[n]) <= SamplesPerMs
            /\ \A n \in 1..(Len(m) - 1) :
                 /\ m[n].start <= m[n + 1].start
                 /\ Abs(m[n + 1].start - m[n].end - SilenceMs) <= 1
                 /\ (~HalfWay(ClockAt(ds, n) + ds[n]) =>
                        m[n + 1].start - m[n].end = SilenceMs)

\* C3, as stated: end - start is the duration and the gap is 0.15 s, exactly.
C3_Original ==
    \A r \in InCall :
        LET m == frame[r].metadata
            ds == frame[r].yielded
        IN  /\ \A n \in 1..Len(m) : SamplesPerMs * (m[n].end - m[n].start) = ds[n]
            /\ \A n \in 1..(Len(m) - 1) :
                 /\ m[n].start <= m[n + 1].start
                 /\ m[n + 1].start - m[n].end = SilenceMs

\* One sentence has given two segments and the next sentence a third.
C3_Witness ==
    \E r \in InCall :
        LET m == frame[r].metadata
        IN  /\ Len(m) = 3
            /\ m[1].index = m[2].index
            /\ m[2].index # m[3].index

\* ------------------------------------------------------------ the chapters table
\* A row of the table created by init_db (tts.py:30-40).
Row(id, book_slug, chapter_slug, item, telegram_id, metadata_json) ==
    [id |-> id, book_slug |-> book_slug, chapter_slug |-> chapter_slug,
     epub_item_id |-> item, telegram_id |-> telegram_id, metadata_json |-> metadata_json]

\* SELECT ... WHERE book_slug=? AND epub_item_id=? (tts.py:150-151)
SelectRows(book_slug, item) ==
    {row \in db : row.book_slug = book_slug /\ row.epub_item_id = item}

\* UNIQUE(book_slug, epub_item_id) (tts.py:38): the rows a new row conflicts with.
Conflicting(rows, new) ==
    {row \in rows : row.book_slug = new.book_slug /\ row.epub_item_id = new.epub_item_id}

\* A slip: the table has no UNIQUE constraint, the row is simply added.
InsertPlain(rows, new) == rows \cup {new}

\* A slip: the insert is never committed.
InsertNothing(rows, new) == rows

\* INSERT OR REPLACE INTO chapters (tts.py:165-168): the conflicting rows are
\* deleted, the new row is inserted.
InsertOrReplace(rows, new) == (rows \ Conflicting(rows, new)) \cup {new}

\* json.dumps / json.loads of the metadata (tts.py:158, 168): a list of objects of
\* strings, integers and three-decimal floats, which JSON gives back as written.
JsonDumps(metadata) == metadata
JsonLoads(metadata_json) == metadata_json

\* The URL Telegram gives for a file_id (kokoro_service.py:94).
UrlOf(file_id) == <<"file", file_id[1]>>

\* get_telegram_file_url (kokoro_service.py:83-99): the URL, or None.
GetTelegramFileUrl(file_id) ==
    IF tgUp /\ \E b \in blobs : b.file_id = file_id THEN UrlOf(file_id) ELSE Nil

\* base64.b64encode(audio_bytes).decode("utf-8") (tts.py:172)
B64(audio_bytes) == <<"b64", audio_bytes[1]>>

\* ------------------------------------------------------------- POST /tts/chapter
\* A slip: the handler gives up the event loop while it works (as it would if it
\* awaited its calls), so another handler may start.
LoopAlwaysFree(r) == TRUE

\* The event loop runs one handler at a time, and post_chapter never awaits
\* (tts.py:142-172): a handler starts only when no other is running.
LoopFree(r) == running = 0

\* The chapter identity of a request: (book_slug, epub_item_id) (tts.py:143, 150).
Identity(q) == <<slugify(q.book_title), q.epub_item_id>>

\* Requests received and not yet answered.
InFlight == {r \in Slots : pc[r] \notin {"idle", "done"}}

\* The connection a new request comes in on: an unused one, else the one whose
\* answer is the oldest.
FreeSlot(r) ==
    /\ pc[r] \in {"idle", "done"}
    /\ \A s \in Slots \ {r} :
         \/ pc[s] \notin {"idle", "done"}
         \/ pc[r] = "idle" /\ (pc[s] = "done" \/ r < s)
         \/ pc[r] = "done" /\ pc[s] = "done" /\ turn[r] < turn[s]

\* A client sends a request; it waits for the event loop.
Arrive(r, q) ==
    /\ FreeSlot(r)
    /\ accepted < MaxCalls
    /\ accepted' = accepted + 1
    /\ pc' = [pc EXCEPT ![r] = "pending"]
    /\ request' = [request EXCEPT ![r] = q]
    /\ frame' = [frame EXCEPT ![r] = NoFrame]
    /\ local' = [local EXCEPT ![r] = NoLocal]
    /\ response' = [response EXCEPT ![r] = NoResponse]
    /\ calls' = [calls EXCEPT ![r] = NoCalls]
    /\ turn' = [turn EXCEPT ![r] = 0]
    /\ raced' = (InFlight # {})
    /\ UNCHANGED <<flipped, running, db, nextId, blobs, tgUp>>
    /\ UNCHANGED rangeVars

\* Handlers the event loop has started so far.
Started == accepted - Cardinality({r \in Slots : pc[r] = "pending"})

\* A slip: the lookup also asks for the chapter's slug.
FoundByChapterSlug(r) ==
    {row \in SelectRows(slugify(request[r].book_title), request[r].epub_item_id) :
        row.chapter_slug = slugify(request[r].chapter_name)}

\* The rows the SELECT of the request gives (tts.py:143, 150-151).
Found(r) == SelectRows(slugify(request[r].book_title), request[r].epub_item_id)

\* The handler starts: the slugs and the lookup (tts.py:143-154).
Lookup(r) ==
    /\ pc[r] = "pending"
    /\ LoopFree(r)
    /\ running' = r
    /\ turn' = [turn EXCEPT ![r] = Started + 1]
    /\ LET found == Found(r)
       IN  IF found = {}
           THEN /\ local' = [local EXCEPT ![r].row = Nil]
                /\ pc' = [pc EXCEPT ![r] = "loop"]
                /\ frame' = [frame EXCEPT ![r] = NewFrame]
           ELSE \E row \in found :
                  /\ local' = [local EXCEPT ![r].row = <<row>>]
                  /\ IF row.telegram_id # Nil
                     THEN pc' = [pc EXCEPT ![r] = "resolve"] /\ UNCHANGED frame
                     ELSE /\ pc' = [pc EXCEPT ![r] = "loop"]
                          /\ frame' = [frame EXCEPT ![r] = NewFrame]
    /\ UNCHANGED <<request, response, calls, raced, flipped, db, nextId, blobs, tgUp, accepted>>
    /\ UNCHANGED rangeVars

\* A slip: the cached answer is never taken.
HitNever(tg_url) == FALSE

\* if tg_url: (tts.py:156)
Hit(tg_url) == tg_url # Nil

\* A slip: a record whose handle gives no URL is deleted at once.
ResolveDropsStale(r) ==
    /\ pc[r] = "resolve"
    /\ calls' = [calls EXCEPT ![r].resolve = @ + 1]
    /\ LET row == local[r].row[1]
           tg_url == GetTelegramFileUrl(row.telegram_id)
       IN  /\ local' = [local EXCEPT ![r].tg_url = tg_url]
           /\ IF Hit(tg_url)
              THEN /\ response' = [response EXCEPT ![r] =
                                     [kind |-> "cached", audio_url |-> tg_url, audio |-> Nil,
                                      metadata |-> JsonLoads(row.metadata_json)]]
                   /\ pc' = [pc EXCEPT ![r] = "done"]
                   /\ running' = IF running = r THEN 0 ELSE running
                   /\ UNCHANGED <<frame, db>>
              ELSE /\ pc' = [pc EXCEPT ![r] = "loop"]
                   /\ frame' = [frame EXCEPT ![r] = NewFrame]
                   /\ db' = db \ {row}
                   /\ UNCHANGED <<response, running>>
    /\ UNCHANGED <<request, raced, flipped, turn, nextId, blobs, tgUp, accepted>>
    /\ UNCHANGED rangeVars

\* The handle of the row found is resolved (tts.py:155-158): with a URL the
\* cached answer is returned, without one generate_full_chapter is called.
Resolve(r) ==
    /\ pc[r] = "resolve"
    /\ calls' = [calls EXCEPT ![r].resolve = @ + 1]
    /\ LET row == local[r].row[1]
           tg_url == GetTelegramFileUrl(row.telegram_id)
       IN  /\ local' = [local EXCEPT ![r].tg_url = tg_url]
           /\ IF Hit(tg_url)
              THEN /\ response' = [response EXCEPT ![r] =
                                     [kind |-> "cached", audio_url |-> tg_url, audio |-> Nil,
                                      metadata |-> JsonLoads(row.metadata_json)]]
                   /\ pc' = [pc EXCEPT ![r] = "done"]
                   /\ running' = IF running = r THEN 0 ELSE running
                   /\ UNCHANGED frame
              ELSE /\ pc' = [pc EXCEPT ![r] = "loop"]
                   /\ frame' = [frame EXCEPT ![r] = NewFrame]
                   /\ UNCHANGED <<response, running>>
    /\ UNCHANGED <<request, raced, flipped, turn, db, nextId, blobs, tgUp, accepted>>
    /\ UNCHANGED rangeVars

\* A slip: the row is written whether or not the upload gave a file_id.
ShouldStoreAlways(tg_file_id) == TRUE

\* if tg_file_id: (tts.py:164)
ShouldStore(tg_file_id) == tg_file_id # Nil

\* The store and the answer (tts.py:164-172). b64encode(None) raises when
\* generate_full_chapter returned no audio.
Store(r) ==
    /\ pc[r] = "store"
    /\ LET l == local[r]
           new == Row(nextId, slugify(request[r].book_title),
                      slugify(request[r].chapter_name), request[r].epub_item_id,
                      l.tg_file_id, JsonDumps(l.metadata))
       IN  /\ IF ShouldStore(l.tg_file_id)
              THEN /\ db' = InsertOrReplace(db, new)
                   /\ nextId' = nextId + 1
                   /\ calls' = [calls EXCEPT ![r].insert = @ + 1]
              ELSE UNCHANGED <<db, nextId, calls>>
           /\ response' = [response EXCEPT ![r] =
                             IF l.audio_bytes = Nil
                             THEN [NoResponse EXCEPT !.kind = "error"]
                             ELSE [kind |-> "fresh", audio_url |-> Nil,
                                   audio |-> B64(l.audio_bytes), metadata |-> l.metadata]]
    /\ pc' = [pc EXCEPT ![r] = "done"]
    /\ running' = IF running = r THEN 0 ELSE running
    /\ UNCHANGED <<request, frame, local, raced, flipped, turn, blobs, tgUp, accepted>>
    /\ UNCHANGED rangeVars

\* Telegram stops or starts answering.
TelegramFlips ==
    /\ tgUp' = ~tgUp
    /\ flipped' = TRUE
    /\ UNCHANGED <<pc, request, frame, local, response, calls, raced, running, turn, db,
                   nextId, blobs, accepted>>
    /\ UNCHANGED rangeVars

\* What an earlier run of the server left for the first request of Requests:
\* the audio of one segment of 1.000 s under file_id 1, and its row.
KeptBlob == [file_id |-> <<1>>, filename |-> <<"b">>, audio |-> <<27600>>]
KeptRow ==
    Row(1, <<"a", "_", "b">>, <<"b">>, "i1", <<1>>,
        <<[index |-> 0, text |-> TextB, start |-> 0, end |-> 1000]>>)

\* The server starts on a new table, or on the table an earlier run left
\* (test.db outlives the process; init_db creates the table only if missing).
Init ==
    /\ pc = [r \in Slots |-> "idle"]
    /\ request = [r \in Slots |-> NoReq]
    /\ frame = [r \in Slots |-> NoFrame]
    /\ local = [r \in Slots |-> NoLocal]
    /\ response = [r \in Slots |-> NoResponse]
    /\ calls = [r \in Slots |-> NoCalls]
    /\ raced = FALSE
    /\ flipped = FALSE
    /\ running = 0
    /\ turn = [r \in Slots |-> 0]
    /\ \/ db = {} /\ nextId = 1 /\ blobs = {}
       \/ db = {KeptRow} /\ nextId = 2 /\ blobs = {KeptBlob}
    /\ tgUp \in BOOLEAN
    /\ accepted = 0
    /\ RangeAtRest

Next ==
    \/ \E r \in Slots, q \in Requests : Arrive(r, q)
    \/ \E r \in Slots : Lookup(r)
    \/ \E r \in Slots : Resolve(r)
    \/ \E r \in Slots : LoopNext(r)
    \/ \E r \in Slots, d \in ServedDurs : GenYield(r, d, MaxSegs)
    \/ \E r \in Slots : GenStop(r)
    \/ \E r \in Slots : GenRaise(r)
    \/ \E r \in Slots : EncodeUpload(r)
    \/ \E r \in Slots : EncodeRaise(r)
    \/ \E r \in Slots : Store(r)
    \/ TelegramFlips

Spec == Init /\ [][Next]_vars

\* ------------------------------------------------------------- the range mode
\* str.split('.'): the pieces between the dots; cur is the piece being collected.
RECURSIVE SplitDots(_, _)
SplitDots(s, cur) ==
    IF s = <<>> THEN <<cur>>
    ELSE IF Head(s) = "." THEN <<cur>> \o SplitDots(Tail(s), <<>>)
         ELSE SplitDots(Tail(s), Append(cur, Head(s)))

\* sentences = [s.strip() + '.' for s in text_content.split('.') if s.strip()]
\* (epub_tts.py:363)
RangeSentences(text) ==
    LET kept == SelectSeq(SplitDots(text, <<>>), LAMBDA x : Strip(x) # <<>>)
    IN  [n \in 1..Len(kept) |-> Append(Strip(kept[n]), ".")]

\* get_adaptive_batch_size (epub_tts.py:95-109)
get_adaptive_batch_size(model, on_battery) ==
    IF model = "air" /\ on_battery THEN 2
    ELSE IF model = "air" THEN 3
    ELSE IF model = "pro" /\ on_battery THEN 4
    ELSE IF model = "pro" THEN 6
    ELSE 3

\* A slip: a reading that is not above max_temp clears the counter.
should_throttle_reset(count, hot) ==
    IF hot
    THEN [count |-> count + 1, throttle |-> count + 1 > 3]
    ELSE [count |-> 0, throttle |-> FALSE]

\* TemperatureMonitor.should_throttle (epub_tts.py:317-327) on a reading that is
\* above max_temp (hot) or not (cooler, or no reading): the new count and the
\* answer.
should_throttle(count, hot) ==
    IF hot
    THEN [count |-> count + 1, throttle |-> count + 1 > 3]
    ELSE [count |-> IF count - 1 > 0 THEN count - 1 ELSE 0, throttle |-> FALSE]

\* What a call of should_throttle leaves to be remembered, prev being what the
\* call before it left.
ReadingOf(prev, count, hot) ==
    [hot |-> hot, before |-> count,
     throttle |-> should_throttle(count, hot).throttle,
     streak |-> IF ~hot THEN 0
                ELSE IF count = 0 THEN 1
                ELSE IF prev.streak > 0 THEN prev.streak + 1 ELSE 0]

Min(a, b) == IF a < b THEN a ELSE b

\* A chunk of audio: the k-th chunk of a sentence of a chapter, or silence.
Chunk(c, n, k, bytes) ==
    [kind |-> "speech", chapter |-> c, sentence |-> n, k |-> k, bytes |-> bytes,
     fade_in |-> FALSE, fade_out |-> FALSE]
Silence(bytes) ==
    [kind |-> "silence", chapter |-> -1, sentence |-> -1, k |-> -1, bytes |-> bytes,
     fade_in |-> FALSE, fade_out |-> FALSE]

\* fade_samples of two neighbours (epub_tts.py:225-229); a sample is two bytes.
FadeSamples(prev, curr) ==
    Min((SampleRate * 10) \div 1000, Min((prev.bytes \div 2) \div 4, (curr.bytes \div 2) \div 4))

\* np.frombuffer(chunk, dtype=np.int16) raises on a chunk of an odd number of
\* bytes (epub_tts.py:197, 221-222); every chunk of a list of two or more is read.
RemoveClickRaises(chunks) ==
    Len(chunks) > 1 /\ \E n \in 1..Len(chunks) : chunks[n].bytes % 2 = 1

\* remove_click_sound (epub_tts.py:203-250): same chunks, same order, same
\* lengths; the ends that meet are faded.
remove_click_sound(chunks) ==
    IF Len(chunks) <= 1 THEN chunks
    ELSE [n \in 1..Len(chunks) |->
            [chunks[n] EXCEPT
               !.fade_in = n > 1 /\ FadeSamples(chunks[n - 1], chunks[n]) > 0,
               !.fade_out = n < Len(chunks) /\ FadeSamples(chunks[n], chunks[n + 1]) > 0]]

\* The silence of silence_ms milliseconds (epub_tts.py:264-265).
SilenceOf(ms) == Silence(((SampleRate * ms) \div 1000) * 2)

\* add_silence_between_sentences (epub_tts.py:252-273)
add_silence_between_sentences(chunks, silence_ms) ==
    IF Len(chunks) <= 1 \/ silence_ms = 0 THEN chunks
    ELSE [n \in 1..(2 * Len(chunks) - 1) |->
            IF n % 2 = 1 THEN chunks[(n + 1) \div 2] ELSE SilenceOf(silence_ms)]

\* chapter_audio.get(chapter_index, []) (epub_tts.py:473)
GetChunks(chapter_audio, idx) ==
    IF chapter_audio[idx] = Nil THEN <<>> ELSE chapter_audio[idx][1]

\* A slip: the position in the selection is taken for the chapter's index.
RECURSIVE CombineByPosition(_, _, _, _)
CombineByPosition(selected, chapter_audio, include_silence, idx) ==
    IF idx > Len(selected) THEN <<>>
    ELSE GetChunks(chapter_audio, idx - 1)
         \o (IF idx < Len(selected) /\ include_silence THEN <<SilenceOf(1000)>> ELSE <<>>)
         \o CombineByPosition(selected, chapter_audio, include_silence, idx + 1)

\* The loop that combines the chapters (epub_tts.py:469-485), from the idx-th
\* selected chapter (1-based) on.
RECURSIVE CombineFrom(_, _, _, _)
CombineFrom(selected, chapter_audio, include_silence, idx) ==
    IF idx > Len(selected) THEN <<>>
    ELSE GetChunks(chapter_audio, selected[idx].index)
         \o (IF idx < Len(selected) /\ include_silence THEN <<SilenceOf(1000)>> ELSE <<>>)
         \o CombineFrom(selected, chapter_audio, include_silence, idx + 1)

\* all_audio_chunks as it is handed to the response (epub_tts.py:469-489)
Assemble(selected, chapter_audio, include_silence, silence_ms) ==
    LET combined == CombineFrom(selected, chapter_audio, include_silence, 1)
    IN  IF include_silence /\ silence_ms > 0
        THEN add_silence_between_sentences(combined, silence_ms)
        ELSE combined

\* A slip: requests are let in before the modules have been imported.
ServingFromTheStart == TRUE

\* The server takes requests once main.py has been imported and the startup
\* hook has run (main.py:33-47).
Serving == boot = "serving"

\* init_kokoro as main.py reaches it: first the call at the import of epub_tts
\* (epub_tts.py:33, main.py:42), then the startup hook (main.py:33-36). The
\* test `pipeline is None` (kokoro_service.py:25) and what follows it are two
\* steps: the download and the construction take time.
BootInit ==
    /\ boot \in {"import", "imported"}
    /\ boot' = IF pipeline = 0
               THEN (IF boot = "import" THEN "import_build" ELSE "startup_build")
               ELSE (IF boot = "import" THEN "imported" ELSE "serving")
    /\ UNCHANGED <<pipeline, host, high_temp_count, reading, epub_cache, rng, ch, sen, rresp>>
    /\ UNCHANGED chapterVars

\* Those who may be inside init_kokoro past its test: the thread that starts
\* the process, and the worker threads, named by the sentence they work on.
Builders == {<<"boot", 0, 0>>} \cup {<<"thread", c, n>> : c \in ChapterIdx, n \in SentIdx}

\* pipeline = KPipeline(lang_code='a') (kokoro_service.py:26-30), by one who
\* found pipeline None.
Construct(who) ==
    /\ pipeline' = pipeline + 1
    /\ IF who[1] = "boot"
       THEN /\ boot \in {"import_build", "startup_build"}
            /\ boot' = IF boot = "import_build" THEN "imported" ELSE "serving"
            /\ UNCHANGED sen
       ELSE /\ sen[who[2]][who[3]].st = "build"
            /\ sen' = [sen EXCEPT ![who[2]][who[3]].st = "running"]
            /\ UNCHANGED boot
    /\ UNCHANGED <<host, high_temp_count, reading, epub_cache, rng, ch, rresp>>
    /\ UNCHANGED chapterVars

\* What the client may ask for besides the range: the defaults (silence of 300
\* ms, mp3), and no silence at all as wav.
RangeOptions ==
    {[include_silence |-> TRUE, silence_ms |-> 300, format |-> "mp3"],
     [include_silence |-> FALSE, silence_ms |-> 300, format |-> "wav"]}

\* A slip: the slice stops before to_chapter.
SelectedUpTo(r) ==
    SubSeq(epub_cache[r.epub_id].chapters, r.from_chapter + 1, r.to_chapter)

\* selected_chapters (epub_tts.py:455)
Selected(r) ==
    SubSeq(epub_cache[r.epub_id].chapters, r.from_chapter + 1, r.to_chapter + 1)

\* A slip: the slice has no end.
BatchToTheEnd(i, batch_size, n) == i..(n - 1)

\* The 0-based positions i .. i + batch_size - 1 of a list of n items
\* (the slices [i:i+batch_size], epub_tts.py:375, 405).
BatchOf(i, batch_size, n) == i..(Min(i + batch_size, n) - 1)

\* The chapter indexes of the batch of selected chapters that starts at i.
ChapterBatch(r, i) ==
    {Selected(r)[p + 1].index : p \in BatchOf(i, r.batch_size, Len(Selected(r)))}

\* Tasks are created for the chapters of a batch (epub_tts.py:409-410).
SpawnChapters(tasks, batch) ==
    [c \in ChapterIdx |-> IF c \in batch THEN [NoChapterTask EXCEPT !.st = "new"] ELSE tasks[c]]

\* GET /generate-chapter-range up to its first await (epub_tts.py:444-466,
\* 396-410): the two checks, then the first batch of chapter tasks.
RangeArrive(id, from, to, opt, on_battery) ==
    /\ Serving
    /\ rng.st = "idle"
    /\ LET q == [rng EXCEPT !.epub_id = id, !.from_chapter = from, !.to_chapter = to,
                            !.include_silence = opt.include_silence,
                            !.silence_ms = opt.silence_ms, !.format = opt.format]
       IN  IF id \notin DOMAIN epub_cache
           THEN /\ rng' = [q EXCEPT !.st = "done"]
                /\ rresp' = [NoRangeResponse EXCEPT !.status = 404]
                /\ UNCHANGED ch
           ELSE IF from < 0 \/ to >= Len(epub_cache[id].chapters) \/ from > to
           THEN /\ rng' = [q EXCEPT !.st = "done"]
                /\ rresp' = [NoRangeResponse EXCEPT !.status = 404]
                /\ UNCHANGED ch
           ELSE LET g == [q EXCEPT !.st = "gather", !.i = 0, !.on_battery = on_battery,
                                   !.batch_size =
                                       get_adaptive_batch_size(host.model, on_battery)]
                IN  /\ rng' = g
                    /\ ch' = SpawnChapters(ch, ChapterBatch(g, 0))
                    /\ UNCHANGED rresp
    /\ UNCHANGED <<pipeline, boot, host, high_temp_count, reading, epub_cache, sen>>
    /\ UNCHANGED chapterVars

\* The sentences of chapter c of the book the request is for.
ChapterSentences(c) == RangeSentences(epub_cache[rng.epub_id].chapters[c + 1].content)

\* Tasks are created for the sentences of a batch (epub_tts.py:378-379).
SpawnSentences(tasks, batch) ==
    [n \in SentIdx |-> IF n \in batch THEN [NoSentenceTask EXCEPT !.st = "new"] ELSE tasks[n]]

\* generate_chapter_audio_concurrent up to its first await (epub_tts.py:356-379).
\* The tasks of a gather start in the order they were made.
ChapterStart(c, on_battery) ==
    /\ ch[c].st = "new"
    /\ \A c2 \in ChapterIdx : c2 < c => ch[c2].st # "new"
    /\ LET sentences == ChapterSentences(c)
           batch_size == get_adaptive_batch_size(host.model, on_battery)
       IN  IF sentences = <<>>
           THEN /\ ch' = [ch EXCEPT ![c].st = "done"]
                /\ UNCHANGED sen
           ELSE /\ ch' = [ch EXCEPT ![c].st = "gather", ![c].i = 0,
                                    ![c].batch_size = batch_size]
                /\ sen' = [sen EXCEPT ![c] =
                             SpawnSentences(@, BatchOf(0, batch_size, Len(sentences)))]
    /\ UNCHANGED <<pipeline, boot, host, high_temp_count, reading, epub_cache, rng, rresp>>
    /\ UNCHANGED chapterVars

\* Worker threads that are running a _generate.
Busy == {cn \in ChapterIdx \X SentIdx : sen[cn[1]][cn[2]].st \in {"build", "running"}}

\* A worker starts on a _generate: generate_audio_stream begins with init_kokoro
\* (kokoro_service.py:103, 25), which builds the pipeline if it finds none.
Picked == IF pipeline = 0 THEN "build" ELSE "running"

\* A slip: every _generate gets a thread of its own.
SubmittedToNewThread == Picked

\* loop.run_in_executor(thread_pool, _generate) (epub_tts.py:352): a worker
\* takes the work at once if the pool of optimal_threads workers has one to
\* spare, else the work waits in the pool's queue.
Submitted == IF Cardinality(Busy) < host.threads THEN Picked ELSE "queued"

\* generate_sentence_audio up to its first await (epub_tts.py:340-352, 329-333):
\* cool_down reads the temperature, then either sleeps or hands _generate to the
\* thread pool.
SentenceStart(c, n, hot) ==
    /\ sen[c][n].st = "new"
    /\ \A m \in SentIdx : m < n => sen[c][m].st # "new"
    /\ hot => high_temp_count < MaxHotCount
    /\ LET t == should_throttle(high_temp_count, hot)
       IN  /\ high_temp_count' = t.count
           /\ reading' = ReadingOf(reading, high_temp_count, hot)
           /\ sen' = [sen EXCEPT ![c][n].st = IF t.throttle THEN "sleep" ELSE Submitted,
                                 ![c][n].pauses = IF t.throttle THEN @ + 1 ELSE @]
    /\ UNCHANGED <<pipeline, boot, host, epub_cache, rng, ch, rresp>>
    /\ UNCHANGED chapterVars

\* asyncio.sleep(2) is over (epub_tts.py:333): _generate goes to the pool.
SentenceWake(c, n) ==
    /\ sen[c][n].st = "sleep"
    /\ sen' = [sen EXCEPT ![c][n].st = Submitted]
    /\ UNCHANGED <<pipeline, boot, host, high_temp_count, reading, epub_cache, rng, ch, rresp>>
    /\ UNCHANGED chapterVars

\* A worker of thread_pool (epub_tts.py:113) has become free and takes a
\* _generate that waited.
ThreadTake(c, n) ==
    /\ sen[c][n].st = "queued"
    /\ Cardinality(Busy) < host.threads
    /\ sen' = [sen EXCEPT ![c][n].st = Picked]
    /\ UNCHANGED <<pipeline, boot, host, high_temp_count, reading, epub_cache, rng, ch, rresp>>
    /\ UNCHANGED chapterVars

\* Where a task that has been made and has not ended may stand.
AtWork == {"new", "sleep", "queued", "build", "running", "gather"}

\* _generate returns the chunks of the sentence (epub_tts.py:346-350).
ThreadReturn(c, n, lens) ==
    /\ sen[c][n].st = "running"
    /\ sen' = [sen EXCEPT ![c][n] =
                 [st |-> "done", pauses |-> @.pauses,
                  chunks |-> [k \in 1..Len(lens) |-> Chunk(c, n, k, lens[k])],
                  overtook |-> \E m \in SentIdx : m < n /\ sen[c][m].st \in AtWork]]
    /\ UNCHANGED <<pipeline, boot, host, high_temp_count, reading, epub_cache, rng, ch, rresp>>
    /\ UNCHANGED chapterVars

\* The engine raises in the worker thread: the task of the sentence fails.
ThreadRaise(c, n) ==
    /\ sen[c][n].st = "running"
    /\ sen' = [sen EXCEPT ![c][n].st = "failed"]
    /\ UNCHANGED <<pipeline, boot, host, high_temp_count, reading, epub_cache, rng, ch, rresp>>
    /\ UNCHANGED chapterVars

\* A slip: the chunks are taken in the order the tasks ended (here: an order
\* other than that of the sentences, when there is one).
RECURSIVE FlattenBackwards(_, _, _)
FlattenBackwards(tasks, lo, hi) ==
    IF lo > hi THEN <<>>
    ELSE tasks[hi].chunks \o FlattenBackwards(tasks, lo, hi - 1)

\* for chunks in batch_chunks_list: all_chunks.extend(chunks) (epub_tts.py:382-383):
\* gather gives the results in the order of the tasks, lo .. hi.
RECURSIVE FlattenBatch(_, _, _)
FlattenBatch(tasks, lo, hi) ==
    IF lo > hi THEN <<>>
    ELSE tasks[lo].chunks \o FlattenBatch(tasks, lo + 1, hi)

\* The gather of a batch of sentences returns (epub_tts.py:379-392): its chunks
\* are added; then the next batch, or remove_click_sound and the return.
SentenceGather(c) ==
    /\ ch[c].st = "gather"
    /\ LET n == Len(ChapterSentences(c))
           batch == BatchOf(ch[c].i, ch[c].batch_size, n)
           all_chunks == ch[c].all_chunks
                           \o FlattenBatch(sen[c], ch[c].i, Min(ch[c].i + ch[c].batch_size, n) - 1)
       IN  /\ \A m \in batch : sen[c][m].st = "done"
           /\ IF ch[c].i + ch[c].batch_size < n
              THEN /\ ch' = [ch EXCEPT ![c].i = @ + ch[c].batch_size,
                                       ![c].all_chunks = all_chunks]
                   /\ sen' = [sen EXCEPT ![c] =
                                SpawnSentences(@, BatchOf(ch[c].i + ch[c].batch_size,
                                                          ch[c].batch_size, n))]
              ELSE /\ ch' = [ch EXCEPT ![c] =
                               IF RemoveClickRaises(all_chunks)
                               THEN [@ EXCEPT !.st = "failed", !.all_chunks = <<>>]
                               ELSE [@ EXCEPT !.st = "done",
                                              !.all_chunks = remove_click_sound(all_chunks),
                                              !.overtook = \E c2 \in ChapterIdx :
                                                  c2 < c /\ ch[c2].st \in AtWork]]
                   /\ UNCHANGED sen
    /\ UNCHANGED <<pipeline, boot, host, high_temp_count, reading, epub_cache, rng, rresp>>
    /\ UNCHANGED chapterVars

\* The gather of a batch of sentences raises (epub_tts.py:379): a task of the
\* batch has failed. The other tasks go on; nobody waits for them.
SentenceGatherRaise(c) ==
    /\ ch[c].st = "gather"
    /\ \E m \in BatchOf(ch[c].i, ch[c].batch_size, Len(ChapterSentences(c))) :
         sen[c][m].st = "failed"
    /\ ch' = [ch EXCEPT ![c].st = "failed", ![c].all_chunks = <<>>]
    /\ UNCHANGED <<pipeline, boot, host, high_temp_count, reading, epub_cache, rng, sen, rresp>>
    /\ UNCHANGED chapterVars

\* The response for a finished range (epub_tts.py:506-509, 569-594).
WavResponse(chunks) == [status |-> 200, media |-> "audio/wav", body |-> chunks]
Mp3Response(chunks) == [status |-> 200, media |-> "audio/mpeg", body |-> chunks]

\* generate_chapters_concurrent_smart has returned (epub_tts.py:424, 466-509):
\* the chapters are combined and the response is made, or handed to the MP3
\* conversion. r is the request with the results filed.
Finish(r) ==
    LET all_audio_chunks ==
            Assemble(Selected(r), r.chapter_audio, r.include_silence, r.silence_ms)
    IN  IF r.format = "wav"
        THEN /\ rng' = [r EXCEPT !.st = "done", !.all_audio_chunks = all_audio_chunks]
             /\ rresp' = WavResponse(all_audio_chunks)
        ELSE /\ rng' = [r EXCEPT !.st = "convert", !.all_audio_chunks = all_audio_chunks]
             /\ UNCHANGED rresp

\* The sleep that follows the batch of chapters that starts at i
\* (epub_tts.py:416-422), in milliseconds; 0 for none.
PauseAfter(r, throttle) ==
    IF throttle THEN 3000
    ELSE IF r.i < Len(Selected(r)) - r.batch_size THEN 500 ELSE 0

\* The gather of a batch of chapters returns (epub_tts.py:410-422): the results
\* are filed under their index and the temperature is read; then the sleep, or,
\* with no sleep due after the last batch, the return.
ChapterGather(hot) ==
    /\ rng.st = "gather"
    /\ hot => high_temp_count < MaxHotCount
    /\ LET batch == ChapterBatch(rng, rng.i)
           chapter_audio == [c \in ChapterIdx |->
                               IF c \in batch THEN <<ch[c].all_chunks>>
                               ELSE rng.chapter_audio[c]]
           t == should_throttle(high_temp_count, hot)
           filed == [rng EXCEPT !.chapter_audio = chapter_audio]
           pause == PauseAfter(rng, t.throttle)
       IN  /\ \A c \in batch : ch[c].st = "done"
           /\ high_temp_count' = t.count
           /\ reading' = ReadingOf(reading, high_temp_count, hot)
           /\ IF pause > 0
              THEN /\ rng' = [filed EXCEPT !.st = "sleep", !.pauses = Append(@, pause)]
                   /\ UNCHANGED rresp
              ELSE Finish(filed)
    /\ UNCHANGED <<pipeline, boot, host, epub_cache, ch, sen>>
    /\ UNCHANGED chapterVars

\* The sleep after a batch of chapters is over (epub_tts.py:419, 422): the next
\* batch of chapter tasks, or the return.
ChapterWake ==
    /\ rng.st = "sleep"
    /\ IF rng.i + rng.batch_size < Len(Selected(rng))
       THEN /\ rng' = [rng EXCEPT !.st = "gather", !.i = @ + rng.batch_size]
            /\ ch' = SpawnChapters(ch, ChapterBatch(rng, rng.i + rng.batch_size))
            /\ UNCHANGED rresp
       ELSE /\ Finish(rng)
            /\ UNCHANGED ch
    /\ UNCHANGED <<pipeline, boot, host, high_temp_count, reading, epub_cache, sen>>
    /\ UNCHANGED chapterVars

\* The gather of a batch of chapters raises (epub_tts.py:410): a chapter task
\* has failed. The exception leaves generate_chapters_concurrent_smart and is
\* caught by the handler (epub_tts.py:511-513): a 500 for the whole range.
ChapterGatherRaise ==
    /\ rng.st = "gather"
    /\ \E c \in ChapterBatch(rng, rng.i) : ch[c].st = "failed"
    /\ rng' = [rng EXCEPT !.st = "done"]
    /\ rresp' = [NoRangeResponse EXCEPT !.status = 500]
    /\ UNCHANGED <<pipeline, boot, host, high_temp_count, reading, epub_cache, ch, sen>>
    /\ UNCHANGED chapterVars

\* convert_to_mp3_concurrent in a worker thread (epub_tts.py:518-567) and the
\* response (epub_tts.py:596-609): the MP3, or, when the conversion gave None
\* (any exception: no pydub, no ffmpeg, chunks that are no WAV files, no chunk
\* at all), the WAV response.
Convert(ok) ==
    /\ rng.st = "convert"
    /\ Cardinality(Busy) < host.threads
    /\ ok => rng.all_audio_chunks # <<>>
    /\ rresp' = IF ok THEN Mp3Response(rng.all_audio_chunks)
                ELSE WavResponse(rng.all_audio_chunks)
    /\ rng' = [rng EXCEPT !.st = "done"]
    /\ UNCHANGED <<pipeline, boot, host, high_temp_count, reading, epub_cache, ch, sen>>
    /\ UNCHANGED chapterVars

\* The process starts on some machine; kokoro_service has just been loaded
\* (pipeline = None, kokoro_service.py:21) and the book is in epub_cache.
InitRange ==
    /\ pc = [r \in Slots |-> "idle"]
    /\ request = [r \in Slots |-> NoReq]
    /\ frame = [r \in Slots |-> NoFrame]
    /\ local = [r \in Slots |-> NoLocal]
    /\ response = [r \in Slots |-> NoResponse]
    /\ calls = [r \in Slots |-> NoCalls]
    /\ raced = FALSE
    /\ flipped = FALSE
    /\ running = 0
    /\ turn = [r \in Slots |-> 0]
    /\ db = {}
    /\ nextId = 1
    /\ blobs = {}
    /\ tgUp = FALSE
    /\ accepted = 0
    /\ pipeline = 0
    /\ boot = "import"
    /\ host \in Hosts
    /\ high_temp_count = 0
    /\ reading = NoReading
    /\ epub_cache = UploadedCache
    /\ rng = NoRng
    /\ ch = [c \in ChapterIdx |-> NoChapterTask]
    /\ sen = [c \in ChapterIdx |-> [n \in SentIdx |-> NoSentenceTask]]
    /\ rresp = NoRangeResponse

\* The process starts on a MacBook Air; the book with the long chapter is in
\* epub_cache.
InitBatches ==
    /\ pc = [r \in Slots |-> "idle"]
    /\ request = [r \in Slots |-> NoReq]
    /\ frame = [r \in Slots |-> NoFrame]
    /\ local = [r \in Slots |-> NoLocal]
    /\ response = [r \in Slots |-> NoResponse]
    /\ calls = [r \in Slots |-> NoCalls]
    /\ raced = FALSE
    /\ flipped = FALSE
    /\ running = 0
    /\ turn = [r \in Slots |-> 0]
    /\ db = {}
    /\ nextId = 1
    /\ blobs = {}
    /\ tgUp = FALSE
    /\ accepted = 0
    /\ pipeline = 0
    /\ boot = "import"
    /\ host = [model |-> "air", threads |-> 2]
    /\ high_temp_count = 0
    /\ reading = NoReading
    /\ epub_cache = UploadedLongCache
    /\ rng = NoRng
    /\ ch = [c \in ChapterIdx |-> NoChapterTask]
    /\ sen = [c \in ChapterIdx |-> [n \in SentIdx |-> NoSentenceTask]]
    /\ rresp = NoRangeResponse

\* epub_id, from_chapter and to_chapter the client may send.
EpubIds == {"e1", "e2"}
ChapterArgs == -1..Len(Book)

NextRange ==
    \/ BootInit
    \/ \E who \in Builders : Construct(who)
    \/ \E id \in EpubIds, from \in ChapterArgs, to \in ChapterArgs, opt \in RangeOptions,
          on_battery \in BOOLEAN : RangeArrive(id, from, to, opt, on_battery)
    \/ \E c \in ChapterIdx, on_battery \in BOOLEAN : ChapterStart(c, on_battery)
    \/ \E c \in ChapterIdx, n \in SentIdx, hot \in BOOLEAN : SentenceStart(c, n, hot)
    \/ \E c \in ChapterIdx, n \in SentIdx : SentenceWake(c, n)
    \/ \E c \in ChapterIdx, n \in SentIdx : ThreadTake(c, n)
    \/ \E c \in ChapterIdx, n \in SentIdx, lens \in ChunkLists : ThreadReturn(c, n, lens)
    \/ \E c \in ChapterIdx, n \in SentIdx : ThreadRaise(c, n)
    \/ \E c \in ChapterIdx : SentenceGather(c)
    \/ \E c \in ChapterIdx : SentenceGatherRaise(c)
    \/ \E hot \in BOOLEAN : ChapterGather(hot)
    \/ ChapterWake
    \/ ChapterGatherRaise
    \/ \E ok \in BOOLEAN : Convert(ok)

SpecRange == InitRange /\ [][NextRange]_vars

\* The chunks of a sentence when every chunk has an even number of bytes.
EvenChunkLists == {lens \in ChunkLists : \A k \in 1..Len(lens) : lens[k] % 2 = 0}

\* The range mode for a client that asks for wav without silence, with an
\* engine whose chunks remove_click_sound can read.
NextBatches ==
    \/ BootInit
    \/ \E who \in Builders : Construct(who)
    \/ \E id \in EpubIds, from \in ChapterArgs, to \in ChapterArgs, on_battery \in BOOLEAN :
          RangeArrive(id, from, to,
                      [include_silence |-> FALSE, silence_ms |-> 300, format |-> "wav"],
                      on_battery)
    \/ \E c \in ChapterIdx, on_battery \in BOOLEAN : ChapterStart(c, on_battery)
    \/ \E c \in ChapterIdx, n \in SentIdx, hot \in BOOLEAN : SentenceStart(c, n, hot)
    \/ \E c \in ChapterIdx, n \in SentIdx : SentenceWake(c, n)
    \/ \E c \in ChapterIdx, n \in SentIdx : ThreadTake(c, n)
    \/ \E c \in ChapterIdx, n \in SentIdx, lens \in EvenChunkLists : ThreadReturn(c, n, lens)
    \/ \E c \in ChapterIdx, n \in SentIdx : ThreadRaise(c, n)
    \/ \E c \in ChapterIdx : SentenceGather(c)
    \/ \E c \in ChapterIdx : SentenceGatherRaise(c)
    \/ \E hot \in BOOLEAN : ChapterGather(hot)
    \/ ChapterWake
    \/ ChapterGatherRaise

SpecBatches == InitBatches /\ [][NextBatches]_vars

\* What the process does of itself when every engine call returns: the event
\* loop runs the tasks that are ready, sleeps end, and the threads of the pool
\* run.
RangeProgress ==
    \/ BootInit
    \/ \E who \in Builders : Construct(who)
    \/ \E c \in ChapterIdx, on_battery \in BOOLEAN : ChapterStart(c, on_battery)
    \/ \E c \in ChapterIdx, n \in SentIdx, hot \in BOOLEAN : SentenceStart(c, n, hot)
    \/ \E c \in ChapterIdx, n \in SentIdx : SentenceWake(c, n)
    \/ \E c \in ChapterIdx, n \in SentIdx : ThreadTake(c, n)
    \/ \E c \in ChapterIdx, n \in SentIdx, lens \in ChunkLists : ThreadReturn(c, n, lens)
    \/ \E c \in ChapterIdx : SentenceGather(c)
    \/ \E hot \in BOOLEAN : ChapterGather(hot)
    \/ ChapterWake
    \/ ChapterGatherRaise
    \/ \E ok \in BOOLEAN : Convert(ok)

\* The range mode on a MacBook Air with an engine that never raises, for a
\* client that asks for chapters from the first on and leaves format and
\* silence at their defaults.
InitThrottle == InitRange /\ host.model = "air"

NextThrottle ==
    \/ \E id \in EpubIds, to \in ChapterArgs, on_battery \in BOOLEAN :
          RangeArrive(id, 0, to,
                      [include_silence |-> TRUE, silence_ms |-> 300, format |-> "mp3"],
                      on_battery)
    \/ RangeProgress

\* The event loop and the threads keep running.
SpecThrottle == InitThrottle /\ [][NextThrottle]_vars /\ WF_vars(RangeProgress)

\* ------------------------------------------------------- the cache, claims
Done(r) == pc[r] = "done"

\* r2's handler was the next the event loop started after r1's.
Consecutive(r1, r2) == turn[r1] >= 1 /\ turn[r2] = turn[r1] + 1

SameIdentity(r1, r2) == Identity(request[r1]) = Identity(request[r2])

\* The lookup of r found a row that holds a handle.
FoundHandle(r) == local[r].row # Nil /\ local[r].row[1].telegram_id # Nil

\* The handle r found was asked for and gave no URL.
ResolveFailed(r) == calls[r].resolve >= 1 /\ local[r].tg_url = Nil

\* Input that section 7 of the specification does not call invalid.
ValidReq(q) == q.voice \in EngineVoices /\ q.speed > 0 /\ q.text # <<>>

\* The rows of the table for the identity of r's request.
RowsOf(r) == SelectRows(Identity(request[r])[1], Identity(request[r])[2])

\* C4 as amended: whenever the lookup finds a record with a remote handle and
\* the handle resolves to a URL, the request is answered from the record, with
\* no engine call, no upload and no write; a request that found a handle and
\* called the engine or uploaded is one whose handle did not resolve.
C4_HitShortCircuits ==
    \A r \in Slots :
        /\ local[r].tg_url # Nil =>
             /\ FoundHandle(r)
             /\ Done(r)
             /\ response[r] = [kind |-> "cached",
                               audio_url |-> UrlOf(local[r].row[1].telegram_id),
                               audio |-> Nil,
                               metadata |-> local[r].row[1].metadata_json]
             /\ calls[r].engine = 0 /\ calls[r].upload = 0 /\ calls[r].insert = 0
        /\ (FoundHandle(r) /\ (calls[r].engine > 0 \/ calls[r].upload > 0)) =>
             ResolveFailed(r)

\* C4, as stated: a record with a handle was found, so no engine call and no
\* upload.
C4_Original ==
    \A r \in Slots : FoundHandle(r) => calls[r].engine = 0 /\ calls[r].upload = 0

\* One request was answered from the record it found; another found a record
\* whose handle did not resolve and called the engine.
C4_Witness ==
    \E r1, r2 \in Slots :
        /\ Done(r1) /\ local[r1].tg_url # Nil /\ response[r1].kind = "cached"
        /\ FoundHandle(r2) /\ ResolveFailed(r2) /\ calls[r2].engine > 0

\* C5 as amended: of two calls made one after the other for one identity, if
\* the first left a record (its upload succeeded, or it was itself served from
\* the record) and the handle resolves in the second, the second is served from
\* the cache: no engine call, no upload, the first call's metadata.
C5_SecondCallCached ==
    \A r1, r2 \in Slots :
        ( /\ Done(r1) /\ Done(r2) /\ Consecutive(r1, r2) /\ SameIdentity(r1, r2)
          /\ (calls[r1].insert = 1 \/ response[r1].kind = "cached")
          /\ ~ResolveFailed(r2) )
        => /\ response[r2].kind = "cached"
           /\ calls[r2].engine = 0 /\ calls[r2].upload = 0
           /\ response[r2].metadata = response[r1].metadata
           /\ (calls[r1].insert = 1 =>
                 response[r2].audio_url = UrlOf(local[r1].tg_file_id))

\* C5, as stated, for runs in which Telegram never changed its answer: the
\* second of two sequential calls with valid input for one identity, both of
\* which gave audio, is served from the cache with no engine call.
C5_Original ==
    \A r1, r2 \in Slots :
        ( /\ Done(r1) /\ Done(r2) /\ Consecutive(r1, r2) /\ SameIdentity(r1, r2)
          /\ ~raced /\ ~flipped
          /\ ValidReq(request[r1]) /\ ValidReq(request[r2])
          /\ response[r1].kind \in {"fresh", "cached"}
          /\ response[r2].kind \in {"fresh", "cached"} )
        => response[r2].kind = "cached" /\ calls[r2].engine = 0

\* A call synthesized, uploaded and stored; the next call for the identity was
\* served from the cache.
C5_Witness ==
    \E r1, r2 \in Slots :
        /\ Done(r1) /\ Done(r2) /\ Consecutive(r1, r2) /\ SameIdentity(r1, r2)
        /\ ~raced
        /\ calls[r1].engine >= 1 /\ calls[r1].insert = 1
        /\ response[r2].kind = "cached" /\ calls[r2].engine = 0

RowIdentity(row) == <<row.book_slug, row.epub_item_id>>

\* No two rows of the table have the same (book_slug, epub_item_id).
OneRowPerIdentity ==
    \A a, b \in db : RowIdentity(a) = RowIdentity(b) => a = b

\* A store leaves, for its identity, the one row it wrote, and the rows of the
\* other identities as they were.
StoreReplaces ==
    \A r \in Slots :
        (pc[r] = "store" /\ pc'[r] = "done" /\ local[r].tg_file_id # Nil) =>
            LET id == Identity(request[r])
            IN  /\ \E row \in db' :
                     /\ {x \in db' : RowIdentity(x) = id} = {row}
                     /\ row.telegram_id = local[r].tg_file_id
                     /\ row.metadata_json = JsonDumps(local[r].metadata)
                     /\ row.chapter_slug = slugify(request[r].chapter_name)
                /\ {x \in db' : RowIdentity(x) # id} = {x \in db : RowIdentity(x) # id}

FailedUploadOnMiss(r) ==
    local[r].row = Nil /\ calls[r].upload = 1 /\ local[r].tg_file_id = Nil

\* C7: when the upload fails on a cache miss, the request still returns the
\* synthesized audio and metadata and writes no record, and the next request for
\* the identity finds no record and goes through synthesis again.
C7_UploadFailureNotCached ==
    \A r1 \in Slots :
        (pc[r1] = "done" /\ FailedUploadOnMiss(r1)) =>
            /\ response[r1].kind = "fresh"
            /\ local[r1].audio_bytes # Nil
            /\ response[r1].audio = B64(local[r1].audio_bytes)
            /\ response[r1].metadata = local[r1].metadata
            /\ Len(response[r1].metadata) >= 1
            /\ calls[r1].insert = 0
            /\ (turn[r1] = Started => RowsOf(r1) = {})
            /\ \A r2 \in Slots :
                 (Consecutive(r1, r2) /\ SameIdentity(r1, r2)) =>
                     /\ local[r2].row = Nil
                     /\ calls[r2].resolve = 0
                     /\ response[r2].kind # "cached"
                     /\ (Done(r2) /\ request[r2].text # <<>> => calls[r2].engine >= 1)

\* An upload failed on a miss, and the next request for the identity has been
\* through the engine again.
C7_Witness ==
    \E r1, r2 \in Slots :
        /\ Done(r1) /\ FailedUploadOnMiss(r1)
        /\ Consecutive(r1, r2) /\ SameIdentity(r1, r2)
        /\ Done(r2) /\ calls[r2].engine >= 1 /\ response[r2].kind = "fresh"

\* Handlers that have started and not returned.
Executing == {r \in Slots : pc[r] \in {"resolve", "loop", "gen", "upload", "store"}}

\* r1 and r2 were in flight at the same time, for one identity that had no row
\* when the first of them ran, and r1 ran first.
RacedPair(r1, r2) ==
    /\ r1 # r2 /\ raced /\ Done(r1) /\ Done(r2)
    /\ SameIdentity(r1, r2)
    /\ turn[r1] < turn[r2]
    /\ local[r1].row = Nil

C9_LookupByIdentityOnly ==
    \A r1, r2 \in Slots :
        (Done(r1) /\ Consecutive(r1, r2) /\ SameIdentity(r1, r2)) =>
            /\ calls[r1].insert = 0 => local[r2].row = local[r1].row
            /\ (response[r1].kind = "cached" /\ response[r2].kind = "cached") =>
                   /\ response[r2].audio_url = response[r1].audio_url
                   /\ response[r2].metadata = response[r1].metadata

\* Two requests that differ in book title (same slug), chapter_name, text, voice
\* and speed were both served from the one record.
C9_Witness ==
    \E r1, r2 \in Slots :
        /\ Done(r1) /\ Done(r2) /\ Consecutive(r1, r2) /\ SameIdentity(r1, r2)
        /\ request[r1].book_title # request[r2].book_title
        /\ request[r1].chapter_name # request[r2].chapter_name
        /\ request[r1].text # request[r2].text
        /\ request[r1].voice # request[r2].voice
        /\ request[r1].speed # request[r2].speed
        /\ response[r1].kind = "cached" /\ response[r2].kind = "cached"
        /\ response[r1].audio_url = response[r2].audio_url

\* C10, as stated: a request with an unknown voice, a non-positive speed or an
\* empty text is rejected as invalid input before any engine call, upload or
\* write.
C10_Original ==
    \A r \in Slots :
        (turn[r] >= 1 /\ ~ValidReq(request[r])) =>
            /\ calls[r].engine = 0 /\ calls[r].upload = 0 /\ calls[r].insert = 0
            /\ Done(r) => response[r].kind = "invalid"

\* ------------------------------------------------ failures, claims
\* C11, as stated: a call of generate_full_chapter that gave no segment is
\* answered with (empty) audio and empty metadata, not with a failure.
C11_Original ==
    [][\A r \in Slots :
         (pc[r] = "store" /\ local[r].audio_bytes = Nil /\ pc'[r] = "done") =>
             /\ response'[r].kind = "fresh"
             /\ response'[r].metadata = <<>>]_vars

\* The sentences of a text the engine is called for.
RECURSIVE NonBlank(_)
NonBlank(ss) ==
    IF ss = <<>> THEN 0
    ELSE (IF Strip(Head(ss)) = <<>> THEN 0 ELSE 1) + NonBlank(Tail(ss))

\* A request that ended in a failure has sent no audio, no metadata, made no
\* upload and written no row; the engine is called once a sentence at most.
NoPartialResult ==
    \A r \in Slots :
        /\ calls[r].engine <= NonBlank(Sentences(request[r].text))
        /\ (Done(r) /\ response[r].kind = "error") =>
              /\ response[r].audio = Nil /\ response[r].audio_url = Nil
              /\ response[r].metadata = <<>>
              /\ calls[r].upload = 0 /\ calls[r].insert = 0

\* The step in which the engine fails ends the request and leaves Telegram, the
\* table and the count of calls as they were.
RaiseEndsRequest ==
    \A r \in Slots :
        (pc[r] = "gen" /\ pc'[r] = "done") =>
            /\ response'[r].kind = "error"
            /\ blobs' = blobs /\ db' = db /\ calls' = calls

\* C12: when the engine fails on a sentence, the synthesis of the chapter stops
\* there and is not tried again: the audio of what was synthesized before is not
\* returned, no upload is attempted and no row is written.
C12_EngineFailureAborts == []NoPartialResult /\ [][RaiseEndsRequest]_vars

\* The engine failed after it had yielded a segment: the request has ended in a
\* failure with one engine call, no upload and no row written.
C12_Witness ==
    \E r \in Slots :
        /\ Done(r) /\ response[r].kind = "error"
        /\ frame[r].yielded # <<>>
        /\ calls[r].engine = 1 /\ calls[r].upload = 0 /\ calls[r].insert = 0
        /\ response[r].audio = Nil

\* C17, as stated, for the single-chapter path: when the MP3 export fails the
\* request does not fail.
C17_Original ==
    [][\A r \in Slots :
         (pc[r] = "upload" /\ pc'[r] = "done") => response'[r].kind # "error"]_vars

\* The audio under a handle is the audio the metadata describes: as many
\* entries as segments, and the last entry ends one silence before the end of
\* the audio, to the millisecond.
AudioFitsMetadata(audio, metadata) ==
    /\ Len(metadata) >= 1
    /\ Abs(audio[1] - (metadata[Len(metadata)].end + SilenceMs) * SamplesPerMs)
         <= SamplesPerMs

\* Every row has a handle, and Telegram holds under that handle the audio of the
\* synthesis the row's metadata came from, uploaded under the row's chapter slug.
RowsHaveBlobs ==
    \A row \in db :
        /\ row.telegram_id # Nil
        /\ \E b \in blobs :
             /\ b.file_id = row.telegram_id
             /\ b.filename = row.chapter_slug
             /\ AudioFitsMetadata(b.audio, row.metadata_json)

\* A step that writes the table makes no upload: the blob the new row names was
\* uploaded before, by the request that writes the row.
UploadBeforeWrite ==
    db' # db =>
        /\ blobs' = blobs
        /\ \E r \in Slots :
             /\ pc[r] = "store" /\ calls[r].upload = 1
             /\ \E row \in db' \ db : row.telegram_id = local[r].tg_file_id

\* C20: every row of chapters written by post_chapter carries the handle a
\* successful upload of the same synthesis returned, and the upload comes before
\* the write: at no moment is there a row without its blob.
C20_UploadThenRecord == []RowsHaveBlobs /\ [][UploadBeforeWrite]_vars

\* One request has written its row; another has uploaded and not yet written:
\* its blob is on Telegram and no row names it.
C20_Witness ==
    \E r1, r2 \in Slots :
        /\ Done(r1) /\ calls[r1].insert = 1
        /\ \E row \in db : row.telegram_id = local[r1].tg_file_id
        /\ pc[r2] = "store" /\ local[r2].tg_file_id # Nil
        /\ \E b \in blobs : b.file_id = local[r2].tg_file_id
        /\ \A row \in db : row.telegram_id # local[r2].tg_file_id

\* ------------------------------------------------ the segmenter, claims
RECURSIVE Flatten(_)
Flatten(ss) == IF ss = <<>> THEN <<>> ELSE Head(ss) \o Flatten(Tail(ss))

NoWhitespace(s) == SelectSeq(s, LAMBDA c : c \notin Whitespace)

\* A terminal mark directly followed by whitespace occurs in s.
HasBreak(s) == \E j \in 1..(Len(s) - 1) : s[j] \in Terminal /\ s[j + 1] \in Whitespace

\* The text the segmenter was called on.
SegText == request[1].text

\* C18 as amended: the segmenter returns, in order, the pieces of the trimmed
\* text (newlines first replaced by spaces) between the runs of whitespace that
\* follow '.', '!' or '?'; blank pieces are not synthesized; the scenario text
\* gives exactly its three sentences; a text with no terminal mark followed by
\* whitespace gives one sentence, the trimmed text with its newlines replaced.
C18_SegmenterSplitsAfterTerminal ==
    LET s  == Strip(ReplaceNewlines(SegText))
        ss == Sentences(SegText)
    IN  /\ Len(ss) >= 1
        /\ \A n \in 1..(Len(ss) - 1) : ss[n] # <<>> /\ ss[n][Len(ss[n])] \in Terminal
        /\ \A n \in 2..Len(ss) : ss[n] # <<>> /\ ss[n][1] \notin Whitespace
        /\ \A n \in 1..Len(ss) : ~HasBreak(ss[n])
        /\ NoWhitespace(Flatten(ss)) = NoWhitespace(s)
        /\ ~HasBreak(s) <=> ss = <<s>>
        /\ SegText = HelloText =>
             ss = << SubSeq(HelloText, 1, 12), SubSeq(HelloText, 14, 25),
                     SubSeq(HelloText, 27, 31) >>
        /\ pc[1] = "gen" =>
             /\ Strip(ss[frame[1].i]) # <<>>
             /\ calls[1].engine = NonBlank(SubSeq(ss, 1, frame[1].i))
        /\ pc[1] = "store" => calls[1].engine = NonBlank(ss)

\* C18, as stated: a text with no terminal mark gives one sentence equal to the
\* trimmed input.
C18_Original ==
    (\A j \in 1..Len(SegText) : SegText[j] \notin Terminal) =>
        Sentences(SegText) = <<Strip(SegText)>>

\* The loop is over for a text with a newline inside and no break: the engine
\* was called once, for the text with the newline replaced by a space.
C18_Witness ==
    /\ pc[1] = "store"
    /\ SegText = <<"a", "\n", "a", ".">>
    /\ Sentences(SegText) = << <<"a", " ", "a", ".">> >>
    /\ calls[1].engine = 1

\* ------------------------------------------------ the range mode, claims
\* The range request has been answered.
Answered == rng.st = "done"

\* The speech of a list of chunks, silence left out.
Speech(chunks) == SelectSeq(chunks, LAMBDA x : x.kind = "speech")

\* The audio chapter c has produced is part of the response.
Delivered(c) ==
    \A p \in 1..Len(ch[c].all_chunks) :
        \E q \in 1..Len(rresp.body) : rresp.body[q] = ch[c].all_chunks[p]

\* A chapter of the range has failed and another has completed with audio.
OneFailedOneCompleted ==
    \E c, c2 \in ChapterIdx :
        ch[c].st = "failed" /\ ch[c2].st = "done" /\ ch[c2].all_chunks # <<>>

\* C13 (as stated): when a chapter of a range has failed and a sibling has
\* completed, the range is answered with audio, and that audio holds what every
\* chapter that completed has produced: the failure is that of the one chapter.
C13_Original ==
    (Answered /\ OneFailedOneCompleted)
        => /\ rresp.status = 200
           /\ \A c2 \in ChapterIdx : ch[c2].st = "done" => Delivered(c2)

\* Chunk x stands before chunk y in the order of the sentences: an earlier
\* sentence, or the same sentence and an earlier chunk of it.
Before(x, y) == x.sentence < y.sentence \/ (x.sentence = y.sentence /\ x.k < y.k)

\* A chunk as the engine gave it, before any fade.
Unfaded(x) == [x EXCEPT !.fade_in = FALSE, !.fade_out = FALSE]

\* The chunks a chapter has gathered stand in the order of the sentences.
InSentenceOrder(c) ==
    \A p, q \in 1..Len(ch[c].all_chunks) :
        p < q => Before(ch[c].all_chunks[p], ch[c].all_chunks[q])

\* The chunks of a completed chapter are those its sentence tasks returned,
\* each once.
AllSentencesGathered(c) ==
    LET last == Len(ChapterSentences(c)) - 1
    IN  /\ \A n \in 0..last : \A k \in 1..Len(sen[c][n].chunks) :
               \E p \in 1..Len(ch[c].all_chunks) :
                   Unfaded(ch[c].all_chunks[p]) = sen[c][n].chunks[k]
        /\ \A p \in 1..Len(ch[c].all_chunks) :
               LET x == ch[c].all_chunks[p]
               IN  /\ x.sentence \in 0..last
                   /\ x.k \in 1..Len(sen[c][x.sentence].chunks)

SelectedIdx == rng.from_chapter..rng.to_chapter

\* The speech of chapter c in the response, in the order of the response.
SpeechOf(c) == SelectSeq(rresp.body, LAMBDA x : x.kind = "speech" /\ x.chapter = c)

\* C15: the audio of a range that was answered holds the audio of the selected
\* chapters in ascending order of their index, whatever the order in which the
\* chapters were synthesised: the audio of every selected chapter is there, whole
\* and once, and there is no audio of any other chapter.
C15_ChaptersAscendingOnce ==
    (Answered /\ rresp.status = 200) =>
        LET speech == Speech(rresp.body)
        IN  /\ \A p, q \in 1..Len(speech) :
                   p < q => speech[p].chapter <= speech[q].chapter
            /\ \A c \in ChapterIdx :
                   SpeechOf(c) = IF c \in SelectedIdx THEN ch[c].all_chunks ELSE <<>>

\* A range of more than one chapter with audio has been answered, and a later
\* chapter of it was complete before an earlier one.
C15_Witness ==
    /\ Answered
    /\ rresp.status = 200
    /\ \E c, c2 \in SelectedIdx :
          /\ c < c2
          /\ ch[c2].overtook
          /\ ch[c].all_chunks # <<>>
          /\ ch[c2].all_chunks # <<>>

\* C16 (as stated): on every class of device, a request that found the machine
\* on battery works with a chapter batch strictly smaller than the one the same
\* machine gets on mains power.
C16_Original ==
    (rng.st \in {"gather", "convert"} /\ rng.on_battery)
        => rng.batch_size < get_adaptive_batch_size(host.model, FALSE)

\* Worker threads that are past init_kokoro, inside generate_audio_stream.
Synthesising == {cn \in ChapterIdx \X SentIdx : sen[cn[1]][cn[2]].st = "running"}

\* C19: pipeline counts the constructions of KPipeline in the process. Whoever
\* calls init_kokoro and in whatever interleaving (the import of epub_tts, the
\* startup hook, the worker threads of the pool), there is never a second
\* construction, so the pipeline is never replaced; and once the server takes
\* requests, or a worker is synthesising, there has been exactly one.
C19_PipelineBuiltOnce ==
    /\ pipeline \in {0, 1}
    /\ (boot = "serving" \/ Synthesising # {}) => pipeline = 1

\* The server is up and two worker threads have gone through init_kokoro and
\* are synthesising at the same time.
C19_Witness ==
    /\ boot = "serving"
    /\ pipeline = 1
    /\ Cardinality(Synthesising) >= 2

\* ------------------------------------------------ the thermal probe, claims
\* C21 (as stated): when three readings above max_temp have followed one
\* another from a counter of zero, the third of them is answered by
\* should_throttle with the enforced pause.
C21_Original == reading.streak = 3 => reading.throttle

\* C22: a reading that is not above max_temp (cooler, or none to be had) leaves
\* high_temp_count one lower than it found it, or at zero if it found it there:
\* it never clears a counter that stood above one. The counter is never
\* negative.
C22_CounterDecaysByOne ==
    /\ high_temp_count >= 0
    /\ ~reading.hot =>
          high_temp_count = (IF reading.before = 0 THEN 0 ELSE reading.before - 1)

\* The last reading was not above max_temp and found the counter above one.
C22_Witness ==
    /\ ~reading.hot
    /\ reading.before > 1
    /\ high_temp_count = reading.before - 1

\* ------------------------------------------------ the worker pool, claims
\* The _generate calls that wait in the queue of the pool.
Queued == {cn \in ChapterIdx \X SentIdx : sen[cn[1]][cn[2]].st = "queued"}

\* No more worker threads are inside generate_audio_stream than the pool has.
PoolBounds == Cardinality(Busy) <= host.threads

\* The size of the pool stays what it was made with.
PoolSizeFixed == host' = host

Unservable(r) ==
    \/ r.epub_id \notin DOMAIN epub_cache
    \/ r.from_chapter < 0
    \/ r.to_chapter >= Len(epub_cache[r.epub_id].chapters)
    \/ r.from_chapter > r.to_chapter

\* No task has been made and no temperature has been read.
NothingStarted ==
    /\ \A c \in ChapterIdx : ch[c] = NoChapterTask
    /\ \A c \in ChapterIdx, n \in SentIdx : sen[c][n] = NoSentenceTask
    /\ high_temp_count = 0
    /\ reading = NoReading

\* C30: a range request with an unknown epub_id, or with from_chapter < 0,
\* to_chapter >= the number of chapters, or from_chapter > to_chapter, is
\* answered 404 with no task made, and epub_cache and the thermal counter are as
\* they were; any other request is not answered 404 and selects the chapters
\* with the indexes from_chapter .. to_chapter, each once, in that order.
C30_RangeValidated ==
    rng.st # "idle" =>
        IF Unservable(rng)
        THEN /\ Answered
             /\ rresp.status = 404
             /\ NothingStarted
             /\ epub_cache = UploadedCache
        ELSE /\ rresp.status # 404
             /\ Len(Selected(rng)) = rng.to_chapter - rng.from_chapter + 1
             /\ \A p \in 1..Len(Selected(rng)) :
                    Selected(rng)[p].index = rng.from_chapter + p - 1

\* A request for a book that is there has been rejected for its to_chapter,
\* which is the number of chapters of the book.
C30_Witness ==
    /\ Answered
    /\ rresp.status = 404
    /\ rng.epub_id \in DOMAIN epub_cache
    /\ rng.from_chapter = 0
    /\ rng.to_chapter = Len(epub_cache[rng.epub_id].chapters)

\* ------------------------------------------------ the two paths, claims
\* What generate_full_chapter hands to the engine for a text: its sentences that
\* are not blank (kokoro_service.py:48-55).
Synthesised(text) == SelectSeq(Sentences(text), LAMBDA x : Strip(x) # <<>>)

\* C26 (as stated): for the text of every chapter a range request has worked
\* on, generate_chapter_audio_concurrent synthesises the same sentences, in the
\* same order, as generate_full_chapter would for that text.
C26_Original ==
    \A c \in ChapterIdx :
        ch[c].st # "none" =>
            ChapterSentences(c) = Synthesised(epub_cache[rng.epub_id].chapters[c + 1].content)

\* The place of the last segment of speech in a list of chunks that has one.
LastSpeechAt(chunks) ==
    CHOOSE q \in 1..Len(chunks) :
        /\ chunks[q].kind = "speech"
        /\ \A p \in 1..Len(chunks) : p > q => chunks[p].kind # "speech"

\* The range assembly has put something after the last segment.
RangeTrails(chunks) == LastSpeechAt(chunks) < Len(chunks)

\* generate_full_chapter puts something after a segment of d samples that is
\* the last: its loop treats every segment alike (kokoro_service.py:64).
SingleTrails(d) == Len(ExtendAudio(<<>>, d)) > 1

\* C25 (as stated): when a range has been assembled with silence between the
\* sentences, silence follows its last segment if and only if
\* generate_full_chapter puts silence after the last of the same segments.
C25_Original ==
    (/\ Answered
     /\ rresp.status = 200
     /\ rng.include_silence
     /\ rng.silence_ms > 0
     /\ Speech(rresp.body) # <<>>)
        => (RangeTrails(rresp.body)
              <=> SingleTrails(rresp.body[LastSpeechAt(rresp.body)].bytes \div 2))

\* ------------------------------------------------ the event loop, claims
\* The handler of request r is inside a synthesis call, or inside a call to
\* Telegram (the resolve of a handle, the upload).
InRemoteOrEngineCall(r) == pc[r] \in {"resolve", "gen", "upload"}

\* C23 (as stated): while the handler of one POST /tts/chapter request is inside
\* a synthesis call or a call to Telegram, the event loop can start the handler
\* of another request that waits.
C23_Original ==
    \A r, r2 \in Slots :
        (r # r2 /\ InRemoteOrEngineCall(r) /\ pc[r2] = "pending") => ENABLED Lookup(r2)

\* ------------------------------------------------ the stale record, claims
\* The lookup of r found a record whose handle gave no URL.
Stale(r) == FoundHandle(r) /\ ResolveFailed(r)

\* A request that found a stale record goes on to generate_full_chapter, is not
\* answered from the record, and the record stays as it is while the request
\* is at work.
StaleIsSynthesisedAgain ==
    \A r \in Slots :
        Stale(r) =>
            /\ pc[r] \in {"loop", "gen", "upload", "store", "done"}
            /\ Done(r) => response[r].kind # "cached"
            /\ pc[r] # "done" => local[r].row[1] \in db

\* The store of a request that found a stale record and has made its upload:
\* with a new handle the record gives way to one with the new handle and the
\* new metadata; without one the table is left as it is, old record included,
\* and the answer carries the new audio and the new metadata.
StaleStore ==
    \A r \in Slots :
        (pc[r] = "store" /\ pc'[r] = "done" /\ Stale(r) /\ calls[r].upload = 1) =>
            IF local[r].tg_file_id # Nil
            THEN \E row \in db' :
                    /\ {x \in db' : RowIdentity(x) = Identity(request[r])} = {row}
                    /\ row.telegram_id = local[r].tg_file_id
                    /\ row.metadata_json = JsonDumps(local[r].metadata)
                    /\ local[r].row[1] \notin db'
            ELSE /\ db' = db
                 /\ local[r].row[1] \in db'
                 /\ response'[r].kind = "fresh"
                 /\ response'[r].audio = B64(local[r].audio_bytes)
                 /\ response'[r].metadata = local[r].metadata

EarlierBatch(p, q, batch_size) == p \div batch_size < q \div batch_size

\* Within a chapter a sentence task is made only when the tasks of all batches
\* before its own have completed, and no more tasks than a batch holds are
\* outstanding.
SentenceBarrier ==
    \A c \in ChapterIdx :
        ch[c].batch_size > 0 =>
            /\ \A m, n \in SentIdx :
                   (EarlierBatch(m, n, ch[c].batch_size) /\ sen[c][n].st # "none")
                       => sen[c][m].st = "done"
            /\ Cardinality({n \in SentIdx : sen[c][n].st \in AtWork}) <= ch[c].batch_size

\* A chapter task is made only when the chapters of all batches before its own
\* have completed.
ChapterBarrier ==
    rng.batch_size > 0 =>
        \A c, c2 \in SelectedIdx :
            ( /\ EarlierBatch(c - rng.from_chapter, c2 - rng.from_chapter, rng.batch_size)
              /\ ch[c2].st # "none" )
                => ch[c].st = "done"

\* C28: batches are barriers. No sentence task of a later batch of a chapter is
\* started before every task of the batches before it has completed, so at most
\* batch_size sentence tasks of a chapter are outstanding; and no chapter of a
\* later batch of chapters is started before every chapter of the batches
\* before it has completed.
C28_BatchesAreBarriers == SentenceBarrier /\ ChapterBarrier

\* With batches of two, the third sentence of a chapter is at work after the
\* first two have completed, and later the third chapter has been started after
\* the first, with the chunks of its three sentences, and the second have
\* completed.
C28_Witness ==
    /\ rng.batch_size = 2
    /\ ch[0].batch_size = 2
    /\ ch[0].st = "done"
    /\ \A n \in SentIdx : sen[0][n].chunks # <<>>
    /\ ch[2].st # "none"

\* ------------------------------------------------ the throttling, claims
\* The range request has been let in and not yet answered.
AtWorkOnRange == rng.st \in {"gather", "sleep", "convert"}

\* No engine call has raised.
EveryEngineCallReturned == \A c \in ChapterIdx, n \in SentIdx : sen[c][n].st # "failed"

\* What the sentence tasks of chapter c have returned, in the order of the
\* sentences.
Returned(c) == FlattenBatch(sen[c], 0, Len(ChapterSentences(c)) - 1)

\* remove_click_sound can read what the engine returned for every chapter.
ChunksReadable ==
    \A c \in ChapterIdx : ch[c].st # "none" => ~RemoveClickRaises(Returned(c))

\* The answer is audio that holds what every requested chapter has produced.
AudioForEveryChapter ==
    /\ rresp.status = 200
    /\ \A c \in SelectedIdx : ch[c].st = "done" /\ Delivered(c)

\* A cool_down has slept once at most, and no more sleeps have followed the
\* batches of chapters than there have been batches.
PausesOnce ==
    /\ \A c \in ChapterIdx, n \in SentIdx : sen[c][n].pauses <= 1
    /\ rng.batch_size > 0 => Len(rng.pauses) <= rng.i \div rng.batch_size + 1

ThrottlingOnlyDelays ==
    /\ []PausesOnce
    /\ [](( /\ Answered
            /\ rresp.status # 404
            /\ EveryEngineCallReturned
            /\ ChunksReadable ) => AudioForEveryChapter)
    /\ (AtWorkOnRange ~> Answered)

============================================================================
